---- MODULE Spec2Model ----
(***************************************************************************)
(* hl-metrics: normalization of three raw fill formats into date           *)
(* partitions (scripts/normalize_data.py, src/schema.py) and the           *)
(* aggregate tables and query cache built over them                        *)
(* (src/query_data_optimized.py).                                          *)
(*                                                                         *)
(* Calendar dates are the integers YYYYMMDD: their order is the order of   *)
(* datetime.date.  Optional values are None (<<>>) or Some(v) (<<v>>).     *)
(***************************************************************************)
EXTENDS Integers, Sequences, FiniteSets, TLC

VARIABLES
    auth_config,    \* the source catalog handed to the resolver
    auth_date,      \* the date handed to the resolver
    auth_pc,        \* "call" before the resolver has run, "return" after
    auth_result     \* the resolver's return value

authVars == <<auth_config, auth_date, auth_pc, auth_result>>

VARIABLES
    conv_dataset,   \* the source identifier process_file is called with
    conv_file,      \* the raw file: its lines, in order
    conv_pc,        \* "call" before process_file has run, "return" after
    conv_result     \* what process_file produced

convVars == <<conv_dataset, conv_file, conv_pc, conv_result>>

VARIABLES
    raw,              \* the raw files on disk
    output,           \* the partitions of the output directory
    pc,               \* where main is: idle, loop, mkdir, open, writing, done, crashed
    all_dates,        \* main: the candidate dates, ascending
    existing_dates,   \* main: the dates found partitioned at the start
    skip_existing,    \* main: the answer to "Skip already processed dates?"
    idx,              \* main: the position of the loop in all_dates
    fills,            \* process_date: the fills collected for the date
    stats_by_dataset, \* main: per-dataset totals
    total_records,    \* main: total records written
    results,          \* the per-date lines of the run's report
    runs,             \* history: the number of runs started
    prev_outcome,     \* history: how the run before this one ended
    output_at_start,  \* history: the partitions when this run started
    written,          \* history: the dates whose data file this run opened
    crash             \* history: where the last crash inside a date was

ghostVars == <<runs, prev_outcome, output_at_start, written, crash>>

normVars == <<raw, output, pc, all_dates, existing_dates, skip_existing, idx,
              fills, stats_by_dataset, total_records, results, ghostVars>>

VARIABLES
    fills_table,        \* the table fills of the database file
    daily_user_volume,  \* the table daily_user_volume
    user_first_trade,   \* the table user_first_trade
    daily_metrics,      \* the table daily_metrics
    db_pc,              \* closed, ready, or the table _build_database creates next
    db_call,            \* the method _build_database was called from
    cache,              \* the lru_cache of _execute_cached, most recent first
    reply,              \* what the last _execute_cached call returned
    last_build,         \* history: how the last call of _build_database ended
    stale_queries       \* history: the queries cached before the last rebuild
                        \* and not executed since

dbVars == <<fills_table, daily_user_volume, user_first_trade, daily_metrics,
            db_pc, db_call, cache, reply, last_build, stale_queries>>

VARIABLES
    pipe_pc,            \* run_pipeline.py: idle, the step main is at, complete, failed
    args,               \* the flags of the invocation
    proc,               \* per step, the state of the command run_command runs
    norm_wrote          \* history: the normalize step of the invocation changed
                        \* the partitions

pipeVars == <<pipe_pc, args, proc, norm_wrote>>

VARIABLES
    dl_objects,         \* download_data.py: objects, the listing to download
    dl_local,           \* per key, the size of the local file, None when absent
    max_workers,        \* the number of worker threads of the executor
    dl_pc,              \* download_files_parallel: idle, check, submit,
                        \* collect, returned
    dl_next,            \* the position of the loop the calling thread is in
    download_queue,     \* the positions in objects of the objects to download
    future,             \* per queued object, the state of its task
    downloaded,
    skipped,
    failed,
    dl_calls,           \* history: the number of calls so far
    local_at_call,      \* history: the local files when the call started
    counted_as          \* history: per object, the counters it was added to

dlVars == <<dl_objects, dl_local, max_workers, dl_pc, dl_next, download_queue,
            future, downloaded, skipped, failed, dl_calls, local_at_call,
            counted_as>>

vars == <<authVars, convVars, normVars, dbVars, pipeVars, dlVars>>

None == <<>>
Some(v) == <<v>>

Min(a, b) == IF a <= b THEN a ELSE b

(***************************************************************************)
(* schema.py: the source catalog.                                          *)
(***************************************************************************)
\* The three source identifiers, in Python's string order.
DatasetNames == <<"node_fills", "node_fills_by_block", "node_trades">>

DatasetSet == {DatasetNames[i] : i \in 1..Len(DatasetNames)}

NameRank(n) == CHOOSE i \in 1..Len(DatasetNames) : DatasetNames[i] = n

DATASET_CONFIG ==
    [node_trades |-> [date_range |-> <<20250322, 20250621>>, priority |-> 3],
     node_fills |-> [date_range |-> <<20250525, 20250727>>, priority |-> 2],
     node_fills_by_block |-> [date_range |-> <<20250727, 20251107>>, priority |-> 1]]

(***************************************************************************)
(* normalize_data.py: determine_dataset_for_date                           *)
(***************************************************************************)
\* Python's order on the (priority, dataset_name) tuples that are sorted.
TupleLess(a, b) ==
    \/ a[1] < b[1]
    \/ a[1] = b[1] /\ NameRank(a[2]) < NameRank(b[2])

\* Mutant: the range test excludes the last day of a range.
determine_dataset_for_date_open_end(config, target_date) ==
    LET available_datasets ==
            {<<config[n].priority, n>> : n \in
                {m \in DOMAIN config :
                    /\ config[m].date_range[1] <= target_date
                    /\ target_date < config[m].date_range[2]}}
    IN  IF available_datasets = {} THEN None
        ELSE Some((CHOOSE t \in available_datasets :
                      \A u \in available_datasets : u = t \/ TupleLess(t, u))[2])

\* Mutant: the sorted list is read from its other end.
determine_dataset_for_date_last(config, target_date) ==
    LET available_datasets ==
            {<<config[n].priority, n>> : n \in
                {m \in DOMAIN config :
                    /\ config[m].date_range[1] <= target_date
                    /\ target_date <= config[m].date_range[2]}}
    IN  IF available_datasets = {} THEN None
        ELSE Some((CHOOSE t \in available_datasets :
                      \A u \in available_datasets : u = t \/ TupleLess(u, t))[2])

\* Mutant: no range test at all.
determine_dataset_for_date_any(config, target_date) ==
    LET available_datasets == {<<config[n].priority, n>> : n \in DOMAIN config}
    IN  IF available_datasets = {} THEN None
        ELSE Some((CHOOSE t \in available_datasets :
                      \A u \in available_datasets : u = t \/ TupleLess(t, u))[2])

determine_dataset_for_date(config, target_date) ==
    LET available_datasets ==
            {<<config[n].priority, n>> : n \in
                {m \in DOMAIN config :
                    /\ config[m].date_range[1] <= target_date
                    /\ target_date <= config[m].date_range[2]}}
    IN  IF available_datasets = {} THEN None
        ELSE Some((CHOOSE t \in available_datasets :
                      \A u \in available_datasets : u = t \/ TupleLess(t, u))[2])

(***************************************************************************)
(* normalize_data.py: the format converters.                               *)
(*                                                                         *)
(* A JSON object is a function on the keys it has; a JSON array is a       *)
(* sequence.  px and sz are the numbers their decimal strings denote.      *)
(***************************************************************************)
\* dict.get(key): None when the key is absent.
Get(d, key) == IF key \in DOMAIN d THEN Some(d[key]) ELSE None

\* dict.get(key, default)
GetOr(d, key, default) == IF key \in DOMAIN d THEN d[key] ELSE default

\* An ISO timestamp string is <<"iso", ms>>, ms being the instant it denotes.
iso_to_unix_ms(iso_str) == iso_str[2]

\* What a conversion or a read produced: the fills, unless it raised.
Returned(fs) == [raised |-> FALSE, fills |-> fs]

Raised == [raised |-> TRUE, fills |-> <<>>]

\* The keys convert_node_trades subscripts on the record (KeyError if absent).
TradeKeys == {"coin", "px", "sz", "side", "time", "hash"}

\* The keys the fill converters subscript on an event's data.
FillKeys == {"coin", "px", "sz", "side", "time", "hash"}

TradeFill(record, party) ==
    [coin |-> record.coin, px |-> record.px, sz |-> record.sz,
     side |-> record.side, time |-> iso_to_unix_ms(record.time),
     hash |-> record.hash,
     user_address |-> party.user,
     oid |-> Get(party, "oid"),
     tid |-> None,
     start_position |-> Get(party, "start_pos"),
     direction |-> None, closed_pnl |-> None, crossed |-> None,
     fee |-> None, fee_token |-> None,
     cloid |-> Get(party, "cloid"),
     block_number |-> None, block_time |-> None,
     builder |-> None, builder_fee |-> None,
     dataset_source |-> "node_trades",
     local_time |-> None]

convert_node_trades(record) ==
    LET side_info == GetOr(record, "side_info", <<>>)
    IN  IF \/ ~(TradeKeys \subseteq DOMAIN record)
           \/ \E i \in 1..Len(side_info) : "user" \notin DOMAIN side_info[i]
        THEN Raised
        ELSE Returned([i \in 1..Len(side_info) |-> TradeFill(record, side_info[i])])

\* The fill both fill formats build from [user_address, data]; block_meta
\* holds the block-level values (all None for node_fills).
EventFill(user_address, data, block_meta, source) ==
    [coin |-> data.coin, px |-> data.px, sz |-> data.sz,
     side |-> data.side, time |-> data.time, hash |-> data.hash,
     user_address |-> user_address,
     oid |-> Get(data, "oid"),
     tid |-> Get(data, "tid"),
     start_position |-> Get(data, "startPosition"),
     direction |-> Get(data, "dir"),
     closed_pnl |-> Get(data, "closedPnl"),
     crossed |-> Get(data, "crossed"),
     fee |-> Get(data, "fee"),
     fee_token |-> Get(data, "feeToken"),
     cloid |-> Get(data, "cloid"),
     block_number |-> block_meta.block_number,
     block_time |-> block_meta.block_time,
     builder |-> block_meta.builder,
     builder_fee |-> block_meta.builder_fee,
     dataset_source |-> source,
     local_time |-> block_meta.local_time]

NoBlockMeta ==
    [block_number |-> None, block_time |-> None, builder |-> None,
     builder_fee |-> None, local_time |-> None]

\* convert_node_fills returns one fill, not a list; process_file yields it.
convert_node_fills(record) ==
    IF Len(record) < 2 \/ ~(FillKeys \subseteq DOMAIN record[2])
    THEN Raised
    ELSE Returned(<<EventFill(record[1], record[2], NoBlockMeta, "node_fills")>>)

BlockMeta(record, data) ==
    [block_number |-> Get(record, "block_number"),
     block_time |-> Get(record, "block_time"),
     builder |-> Get(data, "builder"),
     builder_fee |-> Get(data, "builderFee"),
     local_time |-> Get(record, "local_time")]

\* Mutant: the block-level stamps are read from the event's data, which does
\* not carry them.
convert_node_fills_by_block_unstamped(record) ==
    LET events == GetOr(record, "events", <<>>)
    IN  IF \E i \in 1..Len(events) :
              Len(events[i]) < 2 \/ ~(FillKeys \subseteq DOMAIN events[i][2])
        THEN Raised
        ELSE Returned([i \in 1..Len(events) |->
                 EventFill(events[i][1], events[i][2],
                           BlockMeta(events[i][2], events[i][2]),
                           "node_fills_by_block")])

convert_node_fills_by_block(record) ==
    LET events == GetOr(record, "events", <<>>)
    IN  IF \E i \in 1..Len(events) :
              Len(events[i]) < 2 \/ ~(FillKeys \subseteq DOMAIN events[i][2])
        THEN Raised
        ELSE Returned([i \in 1..Len(events) |->
                 EventFill(events[i][1], events[i][2],
                           BlockMeta(record, events[i][2]),
                           "node_fills_by_block")])

\* process_file's converter_map.
converter(dataset_name, record) ==
    CASE dataset_name = "node_trades" -> convert_node_trades(record)
      [] dataset_name = "node_fills" -> convert_node_fills(record)
      [] dataset_name = "node_fills_by_block" -> convert_node_fills_by_block(record)

\* A line of a raw file: blank, a JSON value, or text json.loads rejects.
BlankLine == [text |-> "blank"]

GarbageLine == [text |-> "garbage"]

JsonLine(value) == [text |-> "json", value |-> value]

\* read_lz4_jsonl then process_file: the fills of the lines in order, blank
\* lines skipped; a line that fails to parse or to convert raises, and the
\* fills yielded before it are lost with the caller's list.
RECURSIVE process_file(_, _)
process_file(dataset_name, file_lines) ==
    IF file_lines = <<>> THEN Returned(<<>>)
    ELSE LET line == Head(file_lines)
             rest == process_file(dataset_name, Tail(file_lines))
         IN  CASE line.text = "blank" -> rest
               [] line.text = "garbage" -> Raised
               [] OTHER ->
                    LET result == converter(dataset_name, line.value)
                    IN  IF result.raised \/ rest.raised THEN Raised
                        ELSE Returned(result.fills \o rest.fills)

(***************************************************************************)
(* normalize_data.py: raw tree, partitions, process_date and main.         *)
(*                                                                         *)
(* raw[dataset][date] is None when <path>/<YYYYMMDD> does not exist, else  *)
(* Some(files), the sorted *.lz4 files of the directory, each a sequence   *)
(* of lines.  output[date] is the partition directory date=<YYYY-MM-DD>    *)
(* of the output directory and its data.parquet.                           *)
(***************************************************************************)
NoPartition == [dir |-> FALSE, file |-> "absent", rows |-> <<>>]

\* The least element of a non-empty set of integers.
Least(S) == CHOOSE x \in S : \A y \in S : x <= y

\* sorted(): the elements of a set of dates in ascending order.
RECURSIVE Sorted(_)
Sorted(S) == IF S = {} THEN <<>> ELSE <<Least(S)>> \o Sorted(S \ {Least(S)})

\* Mutant: only the directories of node_trades are listed.
get_all_dates_one_source(tree) ==
    Sorted({d \in DOMAIN tree["node_trades"] : tree["node_trades"][d] # None})

get_all_dates(tree) ==
    Sorted({d \in UNION {DOMAIN tree[ds] : ds \in DOMAIN tree} :
               \E ds \in DOMAIN tree : d \in DOMAIN tree[ds] /\ tree[ds][d] # None})

get_files_for_date(tree, dataset_name, target_date) ==
    IF tree[dataset_name][target_date] = None THEN <<>>
    ELSE tree[dataset_name][target_date][1]

\* Mutant: no partition is ever reported as already processed.
existing_dates_of_none(out) == {}

\* Mutant: only a directory with a complete data file counts.
existing_dates_of_complete(out) ==
    {d \in DOMAIN out : out[d].dir /\ out[d].file = "complete"}

\* main: the dates of the date=... directories of the output directory.
existing_dates_of(out) == {d \in DOMAIN out : out[d].dir}

\* process_date's loop over the files: every fill of every file, in order;
\* an exception in a file propagates.
RECURSIVE collect_fills(_, _)
collect_fills(dataset_name, files) ==
    IF files = <<>> THEN Returned(<<>>)
    ELSE LET first == process_file(dataset_name, Head(files))
             rest == collect_fills(dataset_name, Tail(files))
         IN  IF first.raised \/ rest.raised THEN Raised
             ELSE Returned(first.fills \o rest.fills)

\* Mutant: the number of files is reported as the number of records.
Result_files_as_records(target_date, dataset, files_processed, records_written, status) ==
    [date |-> target_date, dataset |-> dataset,
     files_processed |-> files_processed,
     records_written |-> files_processed, status |-> status]

\* process_date's return value.
Result(target_date, dataset, files_processed, records_written, status) ==
    [date |-> target_date, dataset |-> dataset,
     files_processed |-> files_processed,
     records_written |-> records_written, status |-> status]

\* main's line for a date it skips without calling process_date.
Skipped(target_date) == [date |-> target_date, status |-> "skipped"]

\* Mutant: the fills of the date are appended to the rows of the partition
\* that is there.
process_date_append(tree, out, date) ==
    LET dataset_name == determine_dataset_for_date(DATASET_CONFIG, date)
    IN  IF dataset_name = None
        THEN [raised |-> FALSE, output |-> out,
              result |-> Result(date, None, 0, 0, "no_data")]
        ELSE
        LET files == get_files_for_date(tree, dataset_name[1], date)
            collected == collect_fills(dataset_name[1], files)
        IN  IF files = <<>>
            THEN [raised |-> FALSE, output |-> out,
                  result |-> Result(date, dataset_name, 0, 0, "no_files")]
            ELSE IF collected.raised
            THEN [raised |-> TRUE, output |-> out,
                  result |-> Result(date, dataset_name, 0, 0, "raised")]
            ELSE [raised |-> FALSE,
                  output |-> [out EXCEPT ![date] =
                      [dir |-> TRUE, file |-> "complete",
                       rows |-> out[date].rows \o collected.fills]],
                  result |-> Result(date, dataset_name, Len(files),
                                    Len(collected.fills), "success")]

\* process_date as a whole: the partitions after it, its return value, and
\* whether it raised instead of returning.
process_date(tree, out, date) ==
    LET dataset_name == determine_dataset_for_date(DATASET_CONFIG, date)
    IN  IF dataset_name = None
        THEN [raised |-> FALSE, output |-> out,
              result |-> Result(date, None, 0, 0, "no_data")]
        ELSE
        LET files == get_files_for_date(tree, dataset_name[1], date)
            collected == collect_fills(dataset_name[1], files)
        IN  IF files = <<>>
            THEN [raised |-> FALSE, output |-> out,
                  result |-> Result(date, dataset_name, 0, 0, "no_files")]
            ELSE IF collected.raised
            THEN [raised |-> TRUE, output |-> out,
                  result |-> Result(date, dataset_name, 0, 0, "raised")]
            ELSE [raised |-> FALSE,
                  output |-> [out EXCEPT ![date] =
                      [dir |-> TRUE, file |-> "complete", rows |-> collected.fills]],
                  result |-> Result(date, dataset_name, Len(files),
                                    Len(collected.fills), "success")]

\* main's loop run to its end, or to the date whose processing raises: the
\* partitions it leaves.
RECURSIVE main_loop(_, _, _, _, _)
main_loop(tree, out, dates, skip, existing) ==
    IF dates = <<>> THEN out
    ELSE IF skip /\ Head(dates) \in existing
    THEN main_loop(tree, out, Tail(dates), skip, existing)
    ELSE LET done == process_date(tree, out, Head(dates))
         IN  IF done.raised THEN out
             ELSE main_loop(tree, done.output, Tail(dates), skip, existing)

\* A run of main that nothing interrupts: the partitions after it.
main(tree, out, skip) ==
    main_loop(tree, out, get_all_dates(tree), skip, existing_dates_of(out))

\* Whether that run of main ends in an exception: all_dates[0] with no raw
\* date (line 337), or a date it processes raises.
main_raises(tree, out, skip) ==
    LET dates == get_all_dates(tree)
    IN  \/ dates = <<>>
        \/ \E i \in 1..Len(dates) :
              /\ ~(skip /\ dates[i] \in existing_dates_of(out))
              /\ process_date(tree, out, dates[i]).raised

(***************************************************************************)
(* query_data_optimized.py: the persistent database, its tables and the    *)
(* query cache.  A table is None until it is created, then Some(rows).     *)
(***************************************************************************)
\* The row of the fills table for a fill of the partition of a date.
FillsRow(date, fill) ==
    [date |-> date, px |-> fill.px, sz |-> fill.sz,
     closed_pnl |-> fill.closed_pnl, fee |-> fill.fee,
     user_address |-> fill.user_address, coin |-> fill.coin,
     side |-> fill.side, hash |-> fill.hash, time |-> fill.time]

RECURSIVE partition_rows(_, _)
partition_rows(out, dates) ==
    IF dates = <<>> THEN <<>>
    ELSE [i \in 1..Len(out[Head(dates)].rows) |->
             FillsRow(Head(dates), out[Head(dates)].rows[i])]
         \o partition_rows(out, Tail(dates))

\* read_parquet('<data_dir>/**/*.parquet', hive_partitioning=true), after the
\* check that data_dir exists: the rows of every data file with the date of
\* its directory.  It raises when the directory or every file is missing
\* and when a file is not a complete parquet file.
read_parquet(out) ==
    LET files == {d \in DOMAIN out : out[d].file # "absent"}
    IN  IF files = {} \/ \E d \in files : out[d].file = "partial"
        THEN [raised |-> TRUE, rows |-> <<>>]
        ELSE [raised |-> FALSE, rows |-> partition_rows(out, Sorted(files))]

\* SUM(sz * px) over rows.
RECURSIVE SumNotional(_)
SumNotional(rows) ==
    IF rows = <<>> THEN 0
    ELSE Head(rows).sz * Head(rows).px + SumNotional(Tail(rows))

\* The rows with side = 'A'.
AskRows(rows) == SelectSeq(rows, LAMBDA r : r.side = "A")

\* CREATE OR REPLACE TABLE daily_user_volume.
DailyUserVolume(fills_rows) ==
    LET asks == AskRows(fills_rows)
        groups == {<<asks[i].date, asks[i].user_address, asks[i].coin>> :
                      i \in 1..Len(asks)}
        Of(g) == SelectSeq(asks,
                    LAMBDA r : <<r.date, r.user_address, r.coin>> = g)
    IN  {[date |-> g[1], user_address |-> g[2], coin |-> g[3],
          daily_volume |-> SumNotional(Of(g)),
          trade_count |-> Len(Of(g))] : g \in groups}

\* Mutant: MAX(date) in place of MIN(date).
UserFirstTrade_max(fills_rows) ==
    LET users == {fills_rows[i].user_address : i \in 1..Len(fills_rows)}
        DatesOf(u) == {fills_rows[i].date : i \in
                          {j \in 1..Len(fills_rows) : fills_rows[j].user_address = u}}
    IN  {[user_address |-> u,
          first_trade_date |->
              CHOOSE d \in DatesOf(u) : \A e \in DatesOf(u) : e <= d]
         : u \in users}

\* CREATE OR REPLACE TABLE user_first_trade.
UserFirstTrade(fills_rows) ==
    LET users == {fills_rows[i].user_address : i \in 1..Len(fills_rows)}
    IN  {[user_address |-> u,
          first_trade_date |->
              Least({fills_rows[i].date : i \in
                        {j \in 1..Len(fills_rows) : fills_rows[j].user_address = u}})]
         : u \in users}

\* Mutant: total_volume sums every row, without the CASE on the side.
DailyMetrics_all_sides(fills_rows) ==
    LET dates == {fills_rows[i].date : i \in 1..Len(fills_rows)}
        Of(d) == SelectSeq(fills_rows, LAMBDA r : r.date = d)
    IN  {[date |-> d,
          dau |-> Cardinality({Of(d)[i].user_address : i \in 1..Len(Of(d))}),
          total_volume |-> SumNotional(Of(d)),
          total_trades |->
              Cardinality({AskRows(Of(d))[i].hash : i \in 1..Len(AskRows(Of(d)))})]
         : d \in dates}

\* CREATE OR REPLACE TABLE daily_metrics.
DailyMetrics(fills_rows) ==
    LET dates == {fills_rows[i].date : i \in 1..Len(fills_rows)}
        Of(d) == SelectSeq(fills_rows, LAMBDA r : r.date = d)
    IN  {[date |-> d,
          dau |-> Cardinality({Of(d)[i].user_address : i \in 1..Len(Of(d))}),
          total_volume |-> SumNotional(AskRows(Of(d))),
          total_trades |->
              Cardinality({AskRows(Of(d))[i].hash : i \in 1..Len(AskRows(Of(d)))})]
         : d \in dates}

\* The query texts _execute_cached is called with.
Queries == {"SELECT COUNT(*) FROM fills",
            "SELECT COUNT(*) FROM daily_user_volume"}

\* @lru_cache(maxsize=128)
CacheMaxSize == 128

\* A family of query texts that differ in one literal: one text more than
\* the cache can hold.
PriceQuery(n) == "SELECT COUNT(*) FROM fills WHERE px >= " \o ToString(n)

PriceQueries == [n \in 1..(CacheMaxSize + 1) |-> PriceQuery(n)]

\* conn.execute(query).fetchall() on the tables as they are; a query of a
\* table that does not exist raises.
Execute(query, fills_rows, volume_rows) ==
    CASE query = "SELECT COUNT(*) FROM fills" ->
            IF fills_rows = None THEN [raised |-> TRUE, value |-> 0]
            ELSE [raised |-> FALSE, value |-> Len(fills_rows[1])]
      [] query = "SELECT COUNT(*) FROM daily_user_volume" ->
            IF volume_rows = None THEN [raised |-> TRUE, value |-> 0]
            ELSE [raised |-> FALSE, value |-> Cardinality(volume_rows[1])]
      [] OTHER ->
            LET n == CHOOSE k \in DOMAIN PriceQueries : PriceQueries[k] = query
            IN  IF fills_rows = None THEN [raised |-> TRUE, value |-> 0]
                ELSE [raised |-> FALSE,
                      value |-> Len(SelectSeq(fills_rows[1],
                                              LAMBDA r : r.px >= n))]

\* The position of a query in the cache, 0 when it is not cached.
CachePos(entries, query) ==
    IF \E i \in 1..Len(entries) : entries[i].query = query
    THEN CHOOSE i \in 1..Len(entries) : entries[i].query = query
    ELSE 0

\* A hit moves the entry to the most recently used end (the front).
CacheTouch(entries, pos) ==
    <<entries[pos]>> \o [i \in 1..(Len(entries) - 1) |->
                            IF i < pos THEN entries[i] ELSE entries[i + 1]]

\* Mutant: a full cache drops its most recently used entry.
CachePut_drops_newest(entries, query, result) ==
    LET kept == IF Len(entries) >= CacheMaxSize
                THEN SubSeq(entries, 2, CacheMaxSize) ELSE entries
    IN  <<[query |-> query, result |-> result]>> \o kept

\* A miss stores the result; a full cache drops its least recently used entry.
CachePut(entries, query, result) ==
    LET kept == IF Len(entries) >= CacheMaxSize
                THEN SubSeq(entries, 1, CacheMaxSize - 1) ELSE entries
    IN  <<[query |-> query, result |-> result]>> \o kept

(***************************************************************************)
(* query_data_optimized.py: the query methods.  Each builds one SELECT and *)
(* runs it with conn.execute; the value is the rows in their ORDER BY      *)
(* order, or the set of rows where the statement leaves the order of equal *)
(* keys open.  A SELECT from a table that does not exist raises.           *)
(***************************************************************************)
QueryRaised == [raised |-> TRUE, value |-> <<>>]

QueryRows(value) == [raised |-> FALSE, value |-> value]

\* SUM(field) over a set of rows.
RECURSIVE SumBy(_, _)
SumBy(rows, field) ==
    IF rows = {} THEN 0
    ELSE LET r == CHOOSE x \in rows : TRUE
         IN  r[field] + SumBy(rows \ {r}, field)

\* date >= start_date AND date <= end_date, each only when given.
InRange(d, start_date, end_date) ==
    /\ start_date = None \/ d >= start_date[1]
    /\ end_date = None \/ d <= end_date[1]

\* strftime(date, '%Y-%m')
MonthOf(d) == d \div 100

\* get_dau: from daily_metrics without a coin filter, else from
\* daily_user_volume grouped by date.
get_dau(metrics_rows, volume_rows, start_date, end_date, coins) ==
    IF coins = None
    THEN IF metrics_rows = None THEN QueryRaised
         ELSE LET sel == {r \in metrics_rows[1] : InRange(r.date, start_date, end_date)}
                  dates == Sorted({r.date : r \in sel})
              IN  QueryRows([i \in 1..Len(dates) |->
                                CHOOSE r \in sel : r.date = dates[i]])
    ELSE IF volume_rows = None THEN QueryRaised
         ELSE LET sel == {r \in volume_rows[1] :
                             /\ InRange(r.date, start_date, end_date)
                             /\ r.coin \in coins[1]}
                  dates == Sorted({r.date : r \in sel})
                  Of(d) == {r \in sel : r.date = d}
              IN  QueryRows([i \in 1..Len(dates) |->
                     [date |-> dates[i],
                      dau |-> Cardinality({r.user_address : r \in Of(dates[i])}),
                      total_volume |-> SumBy(Of(dates[i]), "daily_volume"),
                      total_trades |-> SumBy(Of(dates[i]), "trade_count")]])

\* query_data.py, get_dau: the baseline, one scan of the fills view over the
\* partition files.  A date has a row when it has a fill that passes the
\* filters; dau counts the users of both sides, total_volume and
\* total_trades the ask fills.
baseline_get_dau(out, start_date, end_date, coins) ==
    LET read == read_parquet(out)
        sel == SelectSeq(read.rows,
                  LAMBDA r : /\ InRange(r.date, start_date, end_date)
                             /\ coins = None \/ r.coin \in coins[1])
        dates == Sorted({sel[i].date : i \in 1..Len(sel)})
        Of(d) == SelectSeq(sel, LAMBDA r : r.date = d)
    IN  IF read.raised THEN QueryRaised
        ELSE QueryRows([i \in 1..Len(dates) |->
                [date |-> dates[i],
                 dau |-> Cardinality({Of(dates[i])[k].user_address :
                                         k \in 1..Len(Of(dates[i]))}),
                 total_volume |-> SumNotional(AskRows(Of(dates[i]))),
                 total_trades |->
                    Cardinality({AskRows(Of(dates[i]))[k].hash :
                                    k \in 1..Len(AskRows(Of(dates[i])))})]])

\* get_mau: daily_user_volume grouped by month.
get_mau(volume_rows, month, coins) ==
    IF volume_rows = None THEN QueryRaised
    ELSE LET sel == {r \in volume_rows[1] :
                        /\ month = None \/ MonthOf(r.date) = month[1]
                        /\ coins = None \/ r.coin \in coins[1]}
             months == Sorted({MonthOf(r.date) : r \in sel})
             Of(m) == {r \in sel : MonthOf(r.date) = m}
         IN  QueryRows([i \in 1..Len(months) |->
                [month |-> months[i],
                 mau |-> Cardinality({r.user_address : r \in Of(months[i])}),
                 total_volume |-> SumBy(Of(months[i]), "daily_volume"),
                 total_trades |-> SumBy(Of(months[i]), "trade_count")]])

\* The default thresholds of get_volume_buckets.
DefaultBuckets == <<100, 1000, 10000, 100000, 1000000>>

\* The CASE of get_volume_buckets: the number of thresholds the volume has
\* reached, 0 for the first label and Len(buckets) for the last.
volume_bucket(buckets, volume) ==
    Cardinality({i \in 1..Len(buckets) : volume >= buckets[i]})

\* get_volume_buckets: per date and user the volume over the coins, then per
\* date and bucket the users and their volume.
get_volume_buckets(volume_rows, start_date, end_date, buckets, coins) ==
    IF volume_rows = None THEN QueryRaised
    ELSE LET sel == {r \in volume_rows[1] :
                        /\ InRange(r.date, start_date, end_date)
                        /\ coins = None \/ r.coin \in coins[1]}
             user_daily_total ==
                {[date |-> k[1], user_address |-> k[2],
                  daily_volume |->
                      SumBy({r \in sel : r.date = k[1] /\ r.user_address = k[2]},
                            "daily_volume")]
                 : k \in {<<r.date, r.user_address>> : r \in sel}}
             keys == {<<t.date, volume_bucket(buckets, t.daily_volume)>> :
                         t \in user_daily_total}
             Of(k) == {t \in user_daily_total :
                          /\ t.date = k[1]
                          /\ volume_bucket(buckets, t.daily_volume) = k[2]}
         IN  QueryRows({[date |-> k[1], volume_bucket |-> k[2],
                         user_count |-> Cardinality(Of(k)),
                         bucket_volume |-> SumBy(Of(k), "daily_volume")]
                        : k \in keys})

\* get_daily_new_users: user_first_trade grouped by first_trade_date.
get_daily_new_users(first_rows) ==
    IF first_rows = None THEN QueryRaised
    ELSE LET dates == Sorted({r.first_trade_date : r \in first_rows[1]})
         IN  QueryRows([i \in 1..Len(dates) |->
                [date |-> dates[i],
                 new_users |-> Cardinality({r \in first_rows[1] :
                                  r.first_trade_date = dates[i]})]])

\* get_top_users_by_volume: daily_user_volume grouped by user; LIMIT keeps
\* the rows fewer than limit rows exceed in total_volume.
get_top_users_by_volume(volume_rows, limit, start_date, end_date) ==
    IF volume_rows = None THEN QueryRaised
    ELSE LET sel == {r \in volume_rows[1] : InRange(r.date, start_date, end_date)}
             Of(u) == {r \in sel : r.user_address = u}
             grouped ==
                {[user_address |-> u,
                  total_trades |-> SumBy(Of(u), "trade_count"),
                  total_volume |-> SumBy(Of(u), "daily_volume"),
                  active_days |-> Cardinality({r.date : r \in Of(u)}),
                  unique_coins |-> Cardinality({r.coin : r \in Of(u)})]
                 : u \in {r.user_address : r \in sel}}
         IN  QueryRows({g \in grouped :
                Cardinality({h \in grouped : h.total_volume > g.total_volume})
                    < limit})

\* get_coin_statistics: daily_user_volume grouped by coin.
get_coin_statistics(volume_rows, start_date, end_date) ==
    IF volume_rows = None THEN QueryRaised
    ELSE LET sel == {r \in volume_rows[1] : InRange(r.date, start_date, end_date)}
             Of(c) == {r \in sel : r.coin = c}
         IN  QueryRows({[coin |-> c,
                         total_trades |-> SumBy(Of(c), "trade_count"),
                         unique_traders |->
                             Cardinality({r.user_address : r \in Of(c)}),
                         total_volume |-> SumBy(Of(c), "daily_volume")]
                        : c \in {r.coin : r \in sel}})

\* get_data_summary: eight scalar subqueries; MIN, MAX and SUM over no row
\* are NULL.
get_data_summary(fills_rows, first_rows, metrics_rows) ==
    IF fills_rows = None \/ first_rows = None \/ metrics_rows = None
    THEN QueryRaised
    ELSE LET dates == {r.date : r \in metrics_rows[1]}
         IN  QueryRows(
                [total_fills |-> Len(fills_rows[1]),
                 unique_users |-> Cardinality(first_rows[1]),
                 unique_coins |->
                     Cardinality({fills_rows[1][i].coin : i \in 1..Len(fills_rows[1])}),
                 total_days |-> Cardinality(dates),
                 earliest_date |-> IF dates = {} THEN None ELSE Some(Least(dates)),
                 latest_date |->
                     IF dates = {} THEN None
                     ELSE Some(CHOOSE d \in dates : \A e \in dates : e <= d),
                 total_volume |->
                     IF dates = {} THEN None
                     ELSE Some(SumBy(metrics_rows[1], "total_volume")),
                 total_trades |->
                     IF dates = {} THEN None
                     ELSE Some(SumBy(metrics_rows[1], "total_trades"))])

(***************************************************************************)
(* Bounds and the raw data the model runs on.                              *)
(***************************************************************************)
\* The days of the catalogs the resolver is tried on, the first NumAuthDays
\* of AuthDayPool.
NumAuthDays == 5

AuthDayPool == <<20250101, 20250108, 20250109, 20250110, 20250120, 20250121, 20250131>>

AuthDays == {AuthDayPool[i] : i \in 1..Min(NumAuthDays, Len(AuthDayPool))}

AuthRanges == {r \in AuthDays \X AuthDays : r[1] <= r[2]}

AuthPriorities == 1..Len(DatasetNames)

AuthCatalogs ==
    {c \in [DatasetSet -> [date_range : AuthRanges, priority : AuthPriorities]] :
        \A m, n \in DatasetSet : m # n => c[m].priority # c[n].priority}

\* The most lines a raw file holds, and the most events a block holds.
MaxFileLines == 2

MaxEvents == 2

SeqsUpTo(S, n) == UNION {[1..k -> S] : k \in 0..n}

TradeCore ==
    [coin |-> "BTC", px |-> 2, sz |-> 3, side |-> "A",
     time |-> <<"iso", 1000>>, hash |-> "0xh1"]

PartyA == [user |-> "0xa", oid |-> 11, start_pos |-> 5, cloid |-> "c1"]

PartyB == [user |-> "0xb", oid |-> 12]

\* A trade record: TradeCore and the side_info given.
Trade(side_info) ==
    [k \in TradeKeys \cup {"side_info"} |->
        IF k = "side_info" THEN side_info ELSE TradeCore[k]]

\* node_trades records: both parties, one party, three parties, an empty
\* side_info, no side_info key, and a record without its hash.
TradeRecords ==
    {Trade(<<PartyA, PartyB>>), Trade(<<PartyB, PartyA>>), Trade(<<PartyA>>),
     Trade(<<PartyA, PartyB, PartyA>>), Trade(<<>>), TradeCore,
     [k \in {"coin", "px", "sz", "side", "time", "side_info"} |->
        Trade(<<PartyA, PartyB>>)[k]]}

FillDataA ==
    [coin |-> "BTC", px |-> 2, sz |-> 3, side |-> "A", time |-> 1000,
     hash |-> "0xh1", oid |-> 11, tid |-> 7, startPosition |-> 5,
     dir |-> "Open Short", closedPnl |-> 0, crossed |-> FALSE, fee |-> 1,
     feeToken |-> "USDC", builder |-> "0xbld", builderFee |-> 1]

FillDataB ==
    [coin |-> "ETH", px |-> 1, sz |-> 4, side |-> "B", time |-> 2000,
     hash |-> "0xh2"]

\* [user_address, data] pairs; the last lacks the required px.
Events ==
    {<<"0xa", FillDataA>>, <<"0xb", FillDataB>>,
     <<"0xa", [k \in FillKeys \ {"px"} |-> FillDataB[k]]>>}

FillRecords == Events

Block(events) ==
    [block_number |-> 42, block_time |-> "2025-07-27T00:00:01",
     local_time |-> "2025-07-27T00:00:02", events |-> events]

\* Blocks of up to MaxEvents events, a block without an events key and a
\* block without its number.
BlockRecords ==
    {Block(ev) : ev \in SeqsUpTo(Events, MaxEvents)}
    \cup {[block_number |-> 43, block_time |-> "2025-07-27T00:00:03"],
          [block_time |-> "2025-07-27T00:00:04",
           events |-> <<<<"0xb", FillDataB>>>>]}

RawRecords(dataset_name) ==
    CASE dataset_name = "node_trades" -> TradeRecords
      [] dataset_name = "node_fills" -> FillRecords
      [] dataset_name = "node_fills_by_block" -> BlockRecords

RawLines(dataset_name) ==
    {JsonLine(r) : r \in RawRecords(dataset_name)} \cup {BlankLine, GarbageLine}

\* The raw directories of one date, per dataset.
RawLayout(d) ==
    CASE d = 20250525 ->
            [node_trades |-> Some(<<<<JsonLine(Trade(<<PartyA, PartyB>>))>>>>),
             node_fills |-> Some(<<<<JsonLine(<<"0xa", FillDataA>>)>>,
                                   <<BlankLine, JsonLine(<<"0xb", FillDataB>>)>>>>),
             node_fills_by_block |-> None]
      [] d = 20250401 ->
            [node_trades |-> Some(<<<<JsonLine(Trade(<<PartyA, PartyB>>)),
                                     JsonLine(Trade(<<PartyB, PartyA>>))>>>>),
             node_fills |-> None,
             node_fills_by_block |-> None]
      [] d = 20250321 ->
            [node_trades |-> Some(<<<<JsonLine(Trade(<<PartyA, PartyB>>))>>>>),
             node_fills |-> None,
             node_fills_by_block |-> None]
      [] d = 20250727 ->
            [node_trades |-> None,
             node_fills |-> Some(<<<<JsonLine(<<"0xa", FillDataA>>)>>>>),
             node_fills_by_block |-> Some(<<>>)]
      [] d = 20250801 ->
            [node_trades |-> None,
             node_fills |-> None,
             node_fills_by_block |->
                Some(<<<<JsonLine(Block(<<<<"0xa", FillDataA>>>>)), GarbageLine>>>>)]
      [] OTHER ->
            [node_trades |-> None,
             node_fills |-> None,
             node_fills_by_block |->
                Some(<<<<JsonLine(Block(<<<<"0xa", FillDataA>>, <<"0xb", FillDataB>>>>))>>>>)]

\* The dates raw data can be on disk for: the first NumRunDays of RunDayPool.
NumRunDays == 5

RunDayPool == <<20250525, 20250401, 20250321, 20250727, 20250801, 20250728, 20250902>>

RunDays == {RunDayPool[i] : i \in 1..Min(NumRunDays, Len(RunDayPool))}

\* The raw tree that holds the directories of the dates in present.
RawTree(present) ==
    [ds \in DatasetSet |->
        [d \in RunDays |-> IF d \in present THEN RawLayout(d)[ds] ELSE None]]

\* The number of runs of main that are followed.
MaxRuns == 2

\* The raw directories of a date after it was downloaded again with other
\* content: one trade where there were two, one fills file where there were
\* two.
RawLayoutLater(d) ==
    CASE d = 20250401 ->
            [node_trades |-> Some(<<<<JsonLine(Trade(<<PartyB, PartyA>>))>>>>),
             node_fills |-> None,
             node_fills_by_block |-> None]
      [] d = 20250525 ->
            [node_trades |-> Some(<<<<JsonLine(Trade(<<PartyA, PartyB>>))>>>>),
             node_fills |-> Some(<<<<JsonLine(<<"0xb", FillDataB>>)>>>>),
             node_fills_by_block |-> None]
      [] OTHER -> RawLayout(d)

(***************************************************************************)
(* Initial values of the parts a specification does not exercise.          *)
(***************************************************************************)
AuthIdle ==
    /\ auth_config = DATASET_CONFIG
    /\ auth_date = 20250101
    /\ auth_pc = "call"
    /\ auth_result = None

ConvIdle ==
    /\ conv_dataset = "node_trades"
    /\ conv_file = <<>>
    /\ conv_pc = "call"
    /\ conv_result = Returned(<<>>)

NormIdle ==
    /\ raw = RawTree({})
    /\ output = [d \in RunDays |-> NoPartition]
    /\ pc = "idle"
    /\ all_dates = <<>>
    /\ existing_dates = {}
    /\ skip_existing = FALSE
    /\ idx = 1
    /\ fills = <<>>
    /\ stats_by_dataset = <<>>
    /\ total_records = 0
    /\ results = <<>>
    /\ runs = 0
    /\ prev_outcome = "none"
    /\ output_at_start = [d \in RunDays |-> NoPartition]
    /\ written = <<>>
    /\ crash = None

DbIdle ==
    /\ fills_table = None
    /\ daily_user_volume = None
    /\ user_first_trade = None
    /\ daily_metrics = None
    /\ db_pc = "closed"
    /\ db_call = "__init__"
    /\ cache = <<>>
    /\ reply = None
    /\ last_build = "none"
    /\ stale_queries = {}

\* The steps of run_pipeline.py, in order.
Steps == <<"download", "normalize", "db">>

NoArgs == [skip_download |-> FALSE, skip_normalize |-> FALSE,
           skip_db |-> FALSE, rebuild_db |-> FALSE]

PipeIdle ==
    /\ pipe_pc = "idle"
    /\ args = NoArgs
    /\ proc = [s \in {"download", "normalize", "db"} |-> "none"]
    /\ norm_wrote = FALSE

\* No download_files_parallel call, nothing listed.
DlIdle ==
    /\ dl_objects = <<>>
    /\ dl_local = <<>>
    /\ max_workers = 1
    /\ dl_pc = "idle"
    /\ dl_next = 1
    /\ download_queue = <<>>
    /\ future = <<>>
    /\ downloaded = 0
    /\ skipped = 0
    /\ failed = 0
    /\ dl_calls = 0
    /\ local_at_call = <<>>
    /\ counted_as = <<>>

(***************************************************************************)
(* SpecAuth: determine_dataset_for_date applied to every bounded catalog   *)
(* without priority ties and every day.                                    *)
(***************************************************************************)
AuthInit ==
    /\ auth_config \in AuthCatalogs
    /\ auth_date \in AuthDays
    /\ auth_pc = "call"
    /\ auth_result = None
    /\ ConvIdle
    /\ NormIdle
    /\ DbIdle
    /\ PipeIdle /\ DlIdle

Resolve ==
    /\ auth_pc = "call"
    /\ auth_pc' = "return"
    /\ auth_result' = determine_dataset_for_date(auth_config, auth_date)
    /\ UNCHANGED <<auth_config, auth_date, convVars, normVars, dbVars, pipeVars, dlVars>>

AuthNext == Resolve

SpecAuth == AuthInit /\ [][AuthNext]_vars

(***************************************************************************)
(* SpecConv: process_file applied to every bounded raw file of each        *)
(* format.                                                                 *)
(***************************************************************************)
ConvInit ==
    /\ conv_dataset \in DatasetSet
    /\ conv_file \in SeqsUpTo(RawLines(conv_dataset), MaxFileLines)
    /\ conv_pc = "call"
    /\ conv_result = Returned(<<>>)
    /\ AuthIdle
    /\ NormIdle
    /\ DbIdle
    /\ PipeIdle /\ DlIdle

Convert ==
    /\ conv_pc = "call"
    /\ conv_pc' = "return"
    /\ conv_result' = process_file(conv_dataset, conv_file)
    /\ UNCHANGED <<conv_dataset, conv_file, authVars, normVars, dbVars, pipeVars, dlVars>>

ConvNext == Convert

SpecConv == ConvInit /\ [][ConvNext]_vars

(***************************************************************************)
(* Spec: runs of normalize_data.main, one after another, over a raw tree   *)
(* on disk.  process_date is taken in the steps between which the process  *)
(* can be interrupted: convert, mkdir, open the data file, finish writing. *)
(***************************************************************************)
NormInit ==
    /\ raw \in {RawTree(present) : present \in SUBSET RunDays}
    /\ output = [d \in RunDays |-> NoPartition]
    /\ pc = "idle"
    /\ all_dates = <<>>
    /\ existing_dates = {}
    /\ skip_existing = FALSE
    /\ idx = 1
    /\ fills = <<>>
    /\ stats_by_dataset = <<>>
    /\ total_records = 0
    /\ results = <<>>
    /\ runs = 0
    /\ prev_outcome = "none"
    /\ output_at_start = [d \in RunDays |-> NoPartition]
    /\ written = <<>>
    /\ crash = None

\* The date the loop of main is at.
target_date == all_dates[idx]

InLoop == pc = "loop" /\ idx <= Len(all_dates)

ToProcess == InLoop /\ ~(skip_existing /\ target_date \in existing_dates)

\* An interruption or an uncaught exception ends the run where it stands.
Crashed(phase) ==
    /\ pc' = "crashed"
    /\ crash' = Some([date |-> target_date, phase |-> phase])

\* main, lines 334-359: list the dates, find the partitions that exist, ask
\* whether to skip them.  all_dates[0] raises when there is no raw date.
StartRun ==
    /\ pc \in {"idle", "done", "crashed"}
    /\ runs < MaxRuns
    /\ runs' = runs + 1
    /\ prev_outcome' = IF pc = "idle" THEN "none" ELSE pc
    /\ output_at_start' = output
    /\ written' = <<>>
    /\ all_dates' = get_all_dates(raw)
    /\ IF all_dates' = <<>>
       THEN /\ pc' = "crashed"
            /\ crash' = None
            /\ UNCHANGED <<existing_dates, skip_existing>>
       ELSE /\ pc' = "loop"
            /\ existing_dates' = existing_dates_of(output)
            /\ skip_existing' \in IF existing_dates' # {} THEN BOOLEAN ELSE {FALSE}
            /\ UNCHANGED crash
    /\ idx' = 1
    /\ fills' = <<>>
    /\ stats_by_dataset' = <<>>
    /\ total_records' = 0
    /\ results' = <<>>
    /\ UNCHANGED <<raw, output, authVars, convVars, dbVars, pipeVars, dlVars>>

\* main, lines 362-364.
SkipDate ==
    /\ InLoop
    /\ skip_existing /\ target_date \in existing_dates
    /\ results' = Append(results, Skipped(target_date))
    /\ idx' = idx + 1
    /\ UNCHANGED <<raw, output, pc, all_dates, existing_dates, skip_existing,
                   fills, stats_by_dataset, total_records, ghostVars, authVars, convVars, dbVars, pipeVars, dlVars>>

\* process_date, lines 254-263, and main's report of the status.
DateNoData ==
    /\ ToProcess
    /\ determine_dataset_for_date(DATASET_CONFIG, target_date) = None
    /\ results' = Append(results, Result(target_date, None, 0, 0, "no_data"))
    /\ idx' = idx + 1
    /\ UNCHANGED <<raw, output, pc, all_dates, existing_dates, skip_existing,
                   fills, stats_by_dataset, total_records, ghostVars, authVars, convVars, dbVars, pipeVars, dlVars>>

\* Mutant: a date whose authoritative source has no raw file is converted
\* from the files of another source.
DateNoFiles_fallback ==
    /\ ToProcess
    /\ LET dataset_name == determine_dataset_for_date(DATASET_CONFIG, target_date)
       IN  /\ dataset_name # None
           /\ get_files_for_date(raw, dataset_name[1], target_date) = <<>>
           /\ \E other \in DatasetSet :
                 LET files == get_files_for_date(raw, other, target_date)
                     collected == collect_fills(other, files)
                 IN  /\ files # <<>>
                     /\ ~collected.raised
                     /\ fills' = collected.fills
    /\ pc' = "mkdir"
    /\ UNCHANGED <<raw, output, all_dates, existing_dates, skip_existing, idx,
                   stats_by_dataset, total_records, results, ghostVars, authVars, convVars, dbVars, pipeVars, dlVars>>

\* process_date, lines 265-274, and main's report of the status.
DateNoFiles ==
    /\ ToProcess
    /\ LET dataset_name == determine_dataset_for_date(DATASET_CONFIG, target_date)
       IN  /\ dataset_name # None
           /\ get_files_for_date(raw, dataset_name[1], target_date) = <<>>
           /\ results' = Append(results,
                            Result(target_date, dataset_name, 0, 0, "no_files"))
    /\ idx' = idx + 1
    /\ UNCHANGED <<raw, output, pc, all_dates, existing_dates, skip_existing,
                   fills, stats_by_dataset, total_records, ghostVars, authVars, convVars, dbVars, pipeVars, dlVars>>

\* process_date, lines 276-284: the fills of the date are collected.
DateConverted ==
    /\ ToProcess
    /\ LET dataset_name == determine_dataset_for_date(DATASET_CONFIG, target_date)
       IN  /\ dataset_name # None
           /\ LET files == get_files_for_date(raw, dataset_name[1], target_date)
                  collected == collect_fills(dataset_name[1], files)
              IN  /\ files # <<>>
                  /\ ~collected.raised
                  /\ fills' = collected.fills
    /\ pc' = "mkdir"
    /\ UNCHANGED <<raw, output, all_dates, existing_dates, skip_existing, idx,
                   stats_by_dataset, total_records, results, ghostVars, authVars, convVars, dbVars, pipeVars, dlVars>>

\* process_date, lines 276-280: a line that does not parse or convert raises,
\* and nothing in process_date or main catches it.
DateConvertRaises ==
    /\ ToProcess
    /\ LET dataset_name == determine_dataset_for_date(DATASET_CONFIG, target_date)
       IN  /\ dataset_name # None
           /\ LET files == get_files_for_date(raw, dataset_name[1], target_date)
              IN  /\ files # <<>>
                  /\ collect_fills(dataset_name[1], files).raised
    /\ Crashed("convert")
    /\ UNCHANGED <<raw, output, all_dates, existing_dates, skip_existing, idx,
                   fills, stats_by_dataset, total_records, results,
                   runs, prev_outcome, output_at_start, written,
                   authVars, convVars, dbVars, pipeVars, dlVars>>

\* process_date, lines 287-289: partition_dir.mkdir(exist_ok=True).
MakePartitionDir ==
    /\ pc = "mkdir"
    /\ output' = [output EXCEPT ![target_date].dir = TRUE]
    /\ pc' = "open"
    /\ UNCHANGED <<raw, all_dates, existing_dates, skip_existing, idx, fills,
                   stats_by_dataset, total_records, results, ghostVars, authVars, convVars, dbVars, pipeVars, dlVars>>

\* process_date, line 292: write_table opens data.parquet in the partition
\* directory itself, truncating the file that is there.
OpenDataFile ==
    /\ pc = "open"
    /\ output' = [output EXCEPT ![target_date].file = "partial",
                                ![target_date].rows = <<>>]
    /\ written' = Append(written, target_date)
    /\ pc' = "writing"
    /\ UNCHANGED <<raw, all_dates, existing_dates, skip_existing, idx, fills,
                   stats_by_dataset, total_records, results,
                   runs, prev_outcome, output_at_start, crash,
                   authVars, convVars, dbVars, pipeVars, dlVars>>

\* stats_by_dataset[dataset] += ..., a defaultdict of zeros.
AddStats(stats, dataset, files_processed, records_written) ==
    LET old == IF dataset \in DOMAIN stats THEN stats[dataset]
               ELSE [dates |-> 0, files |-> 0, records |-> 0]
        new == [dates |-> old.dates + 1,
                files |-> old.files + files_processed,
                records |-> old.records + records_written]
    IN  [ds \in DOMAIN stats \cup {dataset} |->
            IF ds = dataset THEN new ELSE stats[ds]]

\* process_date, lines 292-300, and main, lines 372-379: the table is
\* written, the date reported as a success and added to the totals.
CloseDataFile ==
    /\ pc = "writing"
    /\ output' = [output EXCEPT ![target_date].file = "complete",
                                ![target_date].rows = fills]
    /\ LET dataset_name == determine_dataset_for_date(DATASET_CONFIG, target_date)
           files == get_files_for_date(raw, dataset_name[1], target_date)
       IN  /\ results' = Append(results,
                Result(target_date, dataset_name, Len(files), Len(fills), "success"))
           /\ stats_by_dataset' =
                AddStats(stats_by_dataset, dataset_name[1], Len(files), Len(fills))
    /\ total_records' = total_records + Len(fills)
    /\ fills' = <<>>
    /\ idx' = idx + 1
    /\ pc' = "loop"
    /\ UNCHANGED <<raw, all_dates, existing_dates, skip_existing, ghostVars, authVars, convVars, dbVars, pipeVars, dlVars>>

\* process_date, line 292: the write raises (disk full, permission denied);
\* write_table removes the file it was writing and the exception ends main.
WriteFails ==
    /\ pc = "writing"
    /\ output' = [output EXCEPT ![target_date].file = "absent",
                                ![target_date].rows = <<>>]
    /\ Crashed("write")
    /\ UNCHANGED <<raw, all_dates, existing_dates, skip_existing, idx, fills,
                   stats_by_dataset, total_records, results,
                   runs, prev_outcome, output_at_start, written,
                   authVars, convVars, dbVars, pipeVars, dlVars>>

\* The process is interrupted or killed inside process_date, after the fills
\* are converted: before mkdir, before the file is opened, or while it is
\* written.  What is on disk stays as it is.
Interrupted ==
    /\ pc \in {"mkdir", "open", "writing"}
    /\ Crashed(pc)
    /\ UNCHANGED <<raw, output, all_dates, existing_dates, skip_existing, idx,
                   fills, stats_by_dataset, total_records, results,
                   runs, prev_outcome, output_at_start, written,
                   authVars, convVars, dbVars, pipeVars, dlVars>>

\* main, lines 389-403: the loop is over and the summary is printed.
FinishRun ==
    /\ pc = "loop"
    /\ idx > Len(all_dates)
    /\ pc' = "done"
    /\ UNCHANGED <<raw, output, all_dates, existing_dates, skip_existing, idx,
                   fills, stats_by_dataset, total_records, results, ghostVars, authVars, convVars, dbVars, pipeVars, dlVars>>

Next ==
    \/ StartRun
    \/ SkipDate
    \/ DateNoData
    \/ DateNoFiles
    \/ DateConverted
    \/ DateConvertRaises
    \/ MakePartitionDir
    \/ OpenDataFile
    \/ CloseDataFile
    \/ WriteFails
    \/ Interrupted
    \/ FinishRun

Init == NormInit /\ AuthIdle /\ ConvIdle /\ DbIdle /\ PipeIdle /\ DlIdle

Spec == Init /\ [][Next]_vars

(***************************************************************************)
(* SpecDB: one HyperliquidAnalytics process after another over the         *)
(* persistent database, while raw data is downloaded and normalized.       *)
(* _build_database is taken statement by statement: each CREATE OR REPLACE *)
(* TABLE commits on its own.                                               *)
(***************************************************************************)
Present(tree) == {d \in RunDays : \E ds \in DatasetSet : tree[ds][d] # None}

DbInit == NormIdle /\ DbIdle /\ AuthIdle /\ ConvIdle /\ PipeIdle /\ DlIdle

\* download_data.py: the raw directories of the next date arrive.
Download ==
    /\ \E i \in 1..Min(NumRunDays, Len(RunDayPool)) :
          /\ RunDayPool[i] \notin Present(raw)
          /\ \A j \in 1..(i - 1) : RunDayPool[j] \in Present(raw)
          /\ raw' = RawTree(Present(raw) \cup {RunDayPool[i]})
    /\ UNCHANGED <<output, pc, all_dates, existing_dates, skip_existing, idx,
                   fills, stats_by_dataset, total_records, results, ghostVars,
                   authVars, convVars, dbVars, pipeVars, dlVars>>

\* normalize_data.py: a whole run of main, in its own process.
NormalizeRun ==
    /\ \E skip \in BOOLEAN :
          /\ skip => existing_dates_of(output) # {}
          /\ output' = main(raw, output, skip)
    /\ output' # output
    /\ UNCHANGED <<raw, pc, all_dates, existing_dates, skip_existing, idx,
                   fills, stats_by_dataset, total_records, results, ghostVars,
                   authVars, convVars, dbVars, pipeVars, dlVars>>

\* __init__, lines 37-52: connect, and build when asked to or when there is
\* no fills table.  A new process starts with an empty cache.
Construct ==
    /\ db_pc = "closed"
    /\ \E rebuild \in BOOLEAN :
          db_pc' = IF rebuild \/ fills_table = None THEN "fills" ELSE "ready"
    /\ db_call' = "__init__"
    /\ last_build' = IF db_pc' = "fills" THEN "running" ELSE last_build
    /\ cache' = <<>>
    /\ stale_queries' = {}
    /\ reply' = None
    /\ UNCHANGED <<fills_table, daily_user_volume, user_first_trade,
                   daily_metrics, normVars, authVars, convVars, pipeVars, dlVars>>

\* rebuild_database, lines 395-397: _build_database and nothing else.
RebuildDatabase ==
    /\ db_pc = "ready"
    /\ db_pc' = "fills"
    /\ db_call' = "rebuild_database"
    /\ last_build' = "running"
    /\ reply' = None
    /\ UNCHANGED <<fills_table, daily_user_volume, user_first_trade,
                   daily_metrics, cache, stale_queries,
                   normVars, authVars, convVars, pipeVars, dlVars>>

\* An exception leaves _build_database: out of __init__ there is no object,
\* out of rebuild_database the caller still holds it.
BuildRaised ==
    /\ db_pc' = IF db_call = "__init__" THEN "closed" ELSE "ready"
    /\ last_build' = "failed"
    /\ cache' = IF db_call = "__init__" THEN <<>> ELSE cache
    /\ stale_queries' =
          IF db_call = "__init__" THEN {}
          ELSE {cache[i].query : i \in 1..Len(cache)}

\* _build_database, lines 63-84.
CreateFills ==
    /\ db_pc = "fills"
    /\ LET read == read_parquet(output)
       IN  IF read.raised
           THEN /\ BuildRaised
                /\ UNCHANGED fills_table
           ELSE /\ fills_table' = Some(read.rows)
                /\ db_pc' = "daily_user_volume"
                /\ UNCHANGED <<last_build, cache, stale_queries>>
    /\ UNCHANGED <<daily_user_volume, user_first_trade, daily_metrics,
                   db_call, reply, normVars, authVars, convVars, pipeVars, dlVars>>

\* _build_database, lines 89-101.
CreateDailyUserVolume ==
    /\ db_pc = "daily_user_volume"
    /\ daily_user_volume' = Some(DailyUserVolume(fills_table[1]))
    /\ db_pc' = "user_first_trade"
    /\ UNCHANGED <<fills_table, user_first_trade, daily_metrics, db_call,
                   last_build, cache, stale_queries, reply,
                   normVars, authVars, convVars, pipeVars, dlVars>>

\* _build_database, lines 103-111.
CreateUserFirstTrade ==
    /\ db_pc = "user_first_trade"
    /\ user_first_trade' = Some(UserFirstTrade(fills_table[1]))
    /\ db_pc' = "daily_metrics"
    /\ UNCHANGED <<fills_table, daily_user_volume, daily_metrics, db_call,
                   last_build, cache, stale_queries, reply,
                   normVars, authVars, convVars, pipeVars, dlVars>>

\* _build_database, lines 113-127, and the return to the caller.  The cache
\* is left as it is.
CreateDailyMetrics ==
    /\ db_pc = "daily_metrics"
    /\ daily_metrics' = Some(DailyMetrics(fills_table[1]))
    /\ db_pc' = "ready"
    /\ last_build' = "complete"
    /\ stale_queries' = {cache[i].query : i \in 1..Len(cache)}
    /\ UNCHANGED <<fills_table, daily_user_volume, user_first_trade, db_call,
                   cache, reply, normVars, authVars, convVars, pipeVars, dlVars>>

\* A statement after the first raises (memory limit, disk full).
StatementFails ==
    /\ db_pc \in {"daily_user_volume", "user_first_trade", "daily_metrics"}
    /\ BuildRaised
    /\ UNCHANGED <<fills_table, daily_user_volume, user_first_trade,
                   daily_metrics, db_call, reply, normVars, authVars, convVars, pipeVars, dlVars>>

\* The process is killed between two statements of _build_database.
BuildInterrupted ==
    /\ db_pc \in {"daily_user_volume", "user_first_trade", "daily_metrics"}
    /\ db_pc' = "closed"
    /\ last_build' = "interrupted"
    /\ cache' = <<>>
    /\ stale_queries' = {}
    /\ UNCHANGED <<fills_table, daily_user_volume, user_first_trade,
                   daily_metrics, db_call, reply, normVars, authVars, convVars, pipeVars, dlVars>>

\* _execute_cached, lines 129-134: the cached result of the query text if
\* there is one, else the result of executing it, which is cached unless the
\* execution raised.
ExecuteCachedQuery(query) ==
    LET pos == CachePos(cache, query)
        result == Execute(query, fills_table, daily_user_volume)
    IN  /\ cache' = IF pos # 0 THEN CacheTouch(cache, pos)
                    ELSE IF result.raised THEN cache
                    ELSE CachePut(cache, query, result)
        /\ reply' = Some([query |-> query,
                          hit |-> pos # 0,
                          result |-> IF pos # 0 THEN cache[pos].result
                                     ELSE result,
                          cached_before_rebuild |-> query \in stale_queries])
        /\ stale_queries' = stale_queries \ {query}

\* A caller of _execute_cached with one of the two table counts.
ExecuteCached ==
    /\ db_pc = "ready"
    /\ \E query \in Queries : ExecuteCachedQuery(query)
    /\ UNCHANGED <<fills_table, daily_user_volume, user_first_trade,
                   daily_metrics, db_pc, db_call, last_build,
                   normVars, authVars, convVars, pipeVars, dlVars>>

\* clear_cache, lines 391-393.
ClearCache ==
    /\ db_pc = "ready"
    /\ cache # <<>>
    /\ cache' = <<>>
    /\ stale_queries' = {}
    /\ UNCHANGED <<fills_table, daily_user_volume, user_first_trade,
                   daily_metrics, db_pc, db_call, last_build, reply,
                   normVars, authVars, convVars, pipeVars, dlVars>>

\* The process ends; the database file stays.
Close ==
    /\ db_pc = "ready"
    /\ db_pc' = "closed"
    /\ cache' = <<>>
    /\ stale_queries' = {}
    /\ reply' = None
    /\ UNCHANGED <<fills_table, daily_user_volume, user_first_trade,
                   daily_metrics, db_call, last_build,
                   normVars, authVars, convVars, pipeVars, dlVars>>

DbNext ==
    \/ Download
    \/ NormalizeRun
    \/ Construct
    \/ RebuildDatabase
    \/ CreateFills
    \/ CreateDailyUserVolume
    \/ CreateUserFirstTrade
    \/ CreateDailyMetrics
    \/ StatementFails
    \/ BuildInterrupted
    \/ ExecuteCached
    \/ ClearCache
    \/ Close

SpecDB == DbInit /\ [][DbNext]_vars

(***************************************************************************)
(* SpecPipe: invocations of run_pipeline.py, one after another.  Each step *)
(* is a command that run_command starts and waits for; between two         *)
(* invocations a HyperliquidAnalytics process may open the database.       *)
(***************************************************************************)
StepSet == {Steps[i] : i \in 1..Len(Steps)}

\* The values argparse can give the four pipeline flags.
ArgSets == [skip_download : BOOLEAN, skip_normalize : BOOLEAN,
            skip_db : BOOLEAN, rebuild_db : BOOLEAN]

\* Path("data/processed/fills.duckdb").exists(): duckdb.connect creates the
\* file the first time a HyperliquidAnalytics is constructed on it.
db_path_exists == last_build # "none"

\* The conditions under which main does not run the command of a step.
StepSkipped(step) ==
    CASE step = "download" -> args.skip_download
      [] step = "normalize" -> args.skip_normalize
      [] step = "db" -> args.skip_db \/ (db_path_exists /\ ~args.rebuild_db)

\* Where main goes after a step that did not fail.
NextPc(step) ==
    CASE step = "download" -> "normalize"
      [] step = "normalize" -> "db"
      [] step = "db" -> "complete"

\* Mutant: run_command reports success whatever the exit code.
run_command_always(status) == TRUE

\* run_command's return value, given how the command ended: subprocess.run
\* with check=True raises CalledProcessError on a non-zero exit code.
run_command(status) == status = "ok"

PipeQuiet == pipe_pc \in {"idle", "complete", "failed"}

PipeInit == NormIdle /\ DbIdle /\ AuthIdle /\ ConvIdle /\ PipeIdle /\ DlIdle

\* main, line 134: parse_args.
PipeStart ==
    /\ PipeQuiet
    /\ db_pc \in {"closed", "ready"}
    /\ args' \in ArgSets
    /\ pipe_pc' = "download"
    /\ proc' = [s \in StepSet |-> "none"]
    /\ norm_wrote' = FALSE
    /\ UNCHANGED <<normVars, authVars, convVars, dbVars, dlVars>>

\* main, lines 144, 163, 175-198: a step whose command is not run.
SkipStep ==
    /\ pipe_pc \in StepSet
    /\ proc[pipe_pc] = "none"
    /\ StepSkipped(pipe_pc)
    /\ pipe_pc' = NextPc(pipe_pc)
    /\ UNCHANGED <<args, proc, norm_wrote, normVars, authVars, convVars, dbVars, dlVars>>

\* run_command, line 38: subprocess.run starts the command of the step.
RunCommand ==
    /\ pipe_pc \in StepSet
    /\ proc[pipe_pc] = "none"
    /\ ~StepSkipped(pipe_pc)
    /\ proc' = [proc EXCEPT ![pipe_pc] = "running"]
    /\ UNCHANGED <<pipe_pc, args, norm_wrote, normVars, authVars, convVars, dbVars, dlVars>>

\* download_data.py ends: with the raw directories of the next date, with
\* nothing new, or with a non-zero exit code.
DownloadExits ==
    /\ proc["download"] = "running"
    /\ \/ /\ \E i \in 1..Min(NumRunDays, Len(RunDayPool)) :
                /\ RunDayPool[i] \notin Present(raw)
                /\ \A j \in 1..(i - 1) : RunDayPool[j] \in Present(raw)
                /\ raw' = RawTree(Present(raw) \cup {RunDayPool[i]})
          /\ proc' = [proc EXCEPT !["download"] = "ok"]
       \/ /\ raw' = raw
          /\ proc' \in {[proc EXCEPT !["download"] = "ok"],
                        [proc EXCEPT !["download"] = "failed"]}
    /\ UNCHANGED <<output, pc, all_dates, existing_dates, skip_existing, idx,
                   fills, stats_by_dataset, total_records, results, ghostVars,
                   pipe_pc, args, norm_wrote, authVars, convVars, dbVars, dlVars>>

\* normalize_data.py ends: main returned, or an exception left it.
NormalizeExits ==
    /\ proc["normalize"] = "running"
    /\ \E skip \in BOOLEAN :
          /\ skip => existing_dates_of(output) # {}
          /\ output' = main(raw, output, skip)
          /\ proc' = [proc EXCEPT !["normalize"] =
                         IF main_raises(raw, output, skip) THEN "failed" ELSE "ok"]
    /\ norm_wrote' = (output' # output)
    /\ UNCHANGED <<raw, pc, all_dates, existing_dates, skip_existing, idx,
                   fills, stats_by_dataset, total_records, results, ghostVars,
                   pipe_pc, args, authVars, convVars, dbVars, dlVars>>

\* The command of the db step, src/query_data.py, ends: its main queries an
\* in-memory view over the partitions and leaves the database file as it is.
BuildExits ==
    /\ proc["db"] = "running"
    /\ proc' = [proc EXCEPT !["db"] =
                   IF read_parquet(output).raised THEN "failed" ELSE "ok"]
    /\ UNCHANGED <<pipe_pc, args, norm_wrote, normVars, authVars, convVars, dbVars, dlVars>>

\* run_command returns to main, which goes on or returns 1.
CommandReturns ==
    /\ pipe_pc \in StepSet
    /\ proc[pipe_pc] \in {"ok", "failed"}
    /\ pipe_pc' = IF run_command(proc[pipe_pc]) THEN NextPc(pipe_pc) ELSE "failed"
    /\ UNCHANGED <<args, proc, norm_wrote, normVars, authVars, convVars, dbVars, dlVars>>

\* A HyperliquidAnalytics process is started between two invocations.
OpenAnalytics == PipeQuiet /\ Construct

PipeNext ==
    \/ PipeStart
    \/ SkipStep
    \/ RunCommand
    \/ DownloadExits
    \/ NormalizeExits
    \/ BuildExits
    \/ CommandReturns
    \/ OpenAnalytics
    \/ CreateFills
    \/ CreateDailyUserVolume
    \/ CreateUserFirstTrade
    \/ CreateDailyMetrics
    \/ Close

SpecPipe == PipeInit /\ [][PipeNext]_vars

(***************************************************************************)
(* SpecRerun: runs of main, as a whole, over raw data of which a date that *)
(* was normalized is downloaded again with other content.                  *)
(***************************************************************************)
RerunInit ==
    /\ raw \in {RawTree(present) : present \in SUBSET RunDays}
    /\ output = [d \in RunDays |-> NoPartition]
    /\ pc = "idle"
    /\ all_dates = <<>>
    /\ existing_dates = {}
    /\ skip_existing = FALSE
    /\ idx = 1
    /\ fills = <<>>
    /\ stats_by_dataset = <<>>
    /\ total_records = 0
    /\ results = <<>>
    /\ runs = 0
    /\ prev_outcome = "none"
    /\ output_at_start = [d \in RunDays |-> NoPartition]
    /\ written = <<>>
    /\ crash = None
    /\ AuthIdle
    /\ ConvIdle
    /\ DbIdle
    /\ PipeIdle /\ DlIdle

\* download_data.py brings other files for a date that has its partition.
Redownload ==
    /\ \E d \in Present(raw) :
          /\ output[d].file = "complete"
          /\ \E ds \in DatasetSet : raw[ds][d] # RawLayoutLater(d)[ds]
          /\ raw' = [ds \in DatasetSet |->
                        [raw[ds] EXCEPT ![d] = RawLayoutLater(d)[ds]]]
    /\ UNCHANGED <<output, pc, all_dates, existing_dates, skip_existing, idx,
                   fills, stats_by_dataset, total_records, results, ghostVars,
                   authVars, convVars, dbVars, pipeVars, dlVars>>

RerunNext ==
    \/ NormalizeRun
    \/ Redownload

SpecRerun == RerunInit /\ [][RerunNext]_vars

(***************************************************************************)
(* SpecQuery: HyperliquidAnalytics processes over a normalized store: the  *)
(* database is built and rebuilt, and the query methods are called.        *)
(***************************************************************************)
\* The arguments the query methods are called with.
QueryDates == {None, Some(20250501)}

QueryCoins == {None, Some({"BTC"}), Some({"BTC", "ETH"})}

QueryMonths == {None, Some(202505)}

\* limit: int = 100
DefaultLimit == 100

QueryLimits == {1, DefaultLimit}

QueryMethods == {"get_dau", "get_mau", "get_volume_buckets",
                 "get_daily_new_users", "get_top_users_by_volume",
                 "get_coin_statistics", "get_data_summary"}

\* What a query method returns to its caller; none of them goes through
\* _execute_cached.
Answer(method, result) ==
    Some([query |-> method, hit |-> FALSE, result |-> result,
          cached_before_rebuild |-> FALSE])

\* The store after a run of main over the raw dates, the database not built.
QueryInit ==
    /\ raw \in {RawTree(present) : present \in SUBSET RunDays}
    /\ output = main(raw, [d \in RunDays |-> NoPartition], FALSE)
    /\ pc = "idle"
    /\ all_dates = <<>>
    /\ existing_dates = {}
    /\ skip_existing = FALSE
    /\ idx = 1
    /\ fills = <<>>
    /\ stats_by_dataset = <<>>
    /\ total_records = 0
    /\ results = <<>>
    /\ runs = 0
    /\ prev_outcome = "none"
    /\ output_at_start = [d \in RunDays |-> NoPartition]
    /\ written = <<>>
    /\ crash = None
    /\ AuthIdle
    /\ ConvIdle
    /\ DbIdle
    /\ PipeIdle /\ DlIdle

\* Mutant: get_dau builds the database before it queries.
GetDau_rebuilding ==
    /\ db_pc = "ready"
    /\ db_pc' = "fills"
    /\ db_call' = "get_dau"
    /\ last_build' = "running"
    /\ reply' = None
    /\ UNCHANGED <<fills_table, daily_user_volume, user_first_trade,
                   daily_metrics, cache, stale_queries,
                   normVars, authVars, convVars, pipeVars, dlVars>>

\* get_dau, lines 143-192.
GetDau ==
    /\ db_pc = "ready"
    /\ \E start_date \in QueryDates, coins \in QueryCoins :
          reply' = Answer("get_dau",
                      get_dau(daily_metrics, daily_user_volume,
                              start_date, None, coins))
    /\ UNCHANGED <<fills_table, daily_user_volume, user_first_trade,
                   daily_metrics, db_pc, db_call, cache, last_build,
                   stale_queries, normVars, authVars, convVars, pipeVars, dlVars>>

\* get_mau, lines 194-223.
GetMau ==
    /\ db_pc = "ready"
    /\ \E month \in QueryMonths, coins \in QueryCoins :
          reply' = Answer("get_mau", get_mau(daily_user_volume, month, coins))
    /\ UNCHANGED <<fills_table, daily_user_volume, user_first_trade,
                   daily_metrics, db_pc, db_call, cache, last_build,
                   stale_queries, normVars, authVars, convVars, pipeVars, dlVars>>

\* get_volume_buckets, lines 225-287.
GetVolumeBuckets ==
    /\ db_pc = "ready"
    /\ \E end_date \in QueryDates, coins \in QueryCoins :
          reply' = Answer("get_volume_buckets",
                      get_volume_buckets(daily_user_volume, None, end_date,
                                         DefaultBuckets, coins))
    /\ UNCHANGED <<fills_table, daily_user_volume, user_first_trade,
                   daily_metrics, db_pc, db_call, cache, last_build,
                   stale_queries, normVars, authVars, convVars, pipeVars, dlVars>>

\* get_daily_new_users, lines 290-300.
GetDailyNewUsers ==
    /\ db_pc = "ready"
    /\ reply' = Answer("get_daily_new_users",
                       get_daily_new_users(user_first_trade))
    /\ UNCHANGED <<fills_table, daily_user_volume, user_first_trade,
                   daily_metrics, db_pc, db_call, cache, last_build,
                   stale_queries, normVars, authVars, convVars, pipeVars, dlVars>>

\* get_top_users_by_volume, lines 302-331.
GetTopUsersByVolume ==
    /\ db_pc = "ready"
    /\ \E limit \in QueryLimits, start_date \in QueryDates :
          reply' = Answer("get_top_users_by_volume",
                      get_top_users_by_volume(daily_user_volume, limit,
                                              start_date, None))
    /\ UNCHANGED <<fills_table, daily_user_volume, user_first_trade,
                   daily_metrics, db_pc, db_call, cache, last_build,
                   stale_queries, normVars, authVars, convVars, pipeVars, dlVars>>

\* get_coin_statistics, lines 333-358.
GetCoinStatistics ==
    /\ db_pc = "ready"
    /\ \E start_date \in QueryDates :
          reply' = Answer("get_coin_statistics",
                      get_coin_statistics(daily_user_volume, start_date, None))
    /\ UNCHANGED <<fills_table, daily_user_volume, user_first_trade,
                   daily_metrics, db_pc, db_call, cache, last_build,
                   stale_queries, normVars, authVars, convVars, pipeVars, dlVars>>

\* get_data_summary, lines 359-385.
GetDataSummary ==
    /\ db_pc = "ready"
    /\ reply' = Answer("get_data_summary",
                       get_data_summary(fills_table, user_first_trade,
                                        daily_metrics))
    /\ UNCHANGED <<fills_table, daily_user_volume, user_first_trade,
                   daily_metrics, db_pc, db_call, cache, last_build,
                   stale_queries, normVars, authVars, convVars, pipeVars, dlVars>>

QueryNext ==
    \/ Construct
    \/ RebuildDatabase
    \/ CreateFills
    \/ CreateDailyUserVolume
    \/ CreateUserFirstTrade
    \/ CreateDailyMetrics
    \/ GetDau
    \/ GetMau
    \/ GetVolumeBuckets
    \/ GetDailyNewUsers
    \/ GetTopUsersByVolume
    \/ GetCoinStatistics
    \/ GetDataSummary
    \/ Close

SpecQuery == QueryInit /\ [][QueryNext]_vars

(***************************************************************************)
(* SpecCache: one HyperliquidAnalytics process after another over a built  *)
(* store, its caller running more distinct query texts through             *)
(* _execute_cached than the cache holds.                                   *)
(***************************************************************************)
\* The raw dates of the store the cached queries run on.
CacheDays == {20250401, 20250525} \cap RunDays

CacheInit ==
    /\ raw = RawTree(CacheDays)
    /\ output = main(raw, [d \in RunDays |-> NoPartition], FALSE)
    /\ pc = "idle"
    /\ all_dates = <<>>
    /\ existing_dates = {}
    /\ skip_existing = FALSE
    /\ idx = 1
    /\ fills = <<>>
    /\ stats_by_dataset = <<>>
    /\ total_records = 0
    /\ results = <<>>
    /\ runs = 0
    /\ prev_outcome = "none"
    /\ output_at_start = [d \in RunDays |-> NoPartition]
    /\ written = <<>>
    /\ crash = None
    /\ AuthIdle
    /\ ConvIdle
    /\ DbIdle
    /\ PipeIdle /\ DlIdle

\* The texts the caller asks for next: the first text of the family that is
\* not cached, the text it asked for last, and the first text of the family.
Workload(entries) ==
    LET cached == {entries[i].query : i \in 1..Len(entries)}
        missing == {k \in DOMAIN PriceQueries : PriceQueries[k] \notin cached}
    IN  {PriceQueries[Least(missing)], PriceQueries[1]}
        \cup (IF entries = <<>> THEN {} ELSE {entries[1].query})

\* _cached_query_to_df, lines 136-141, calling _execute_cached, lines 129-134.
CachedQueryToDf ==
    /\ db_pc = "ready"
    /\ \E query \in Workload(cache) : ExecuteCachedQuery(query)
    /\ UNCHANGED <<fills_table, daily_user_volume, user_first_trade,
                   daily_metrics, db_pc, db_call, last_build,
                   normVars, authVars, convVars, pipeVars, dlVars>>

CacheNext ==
    \/ Construct
    \/ CreateFills
    \/ CreateDailyUserVolume
    \/ CreateUserFirstTrade
    \/ CreateDailyMetrics
    \/ CachedQueryToDf
    \/ ClearCache
    \/ Close

SpecCache == CacheInit /\ [][CacheNext]_vars

(***************************************************************************)
(* SpecDownload: calls of download_files_parallel, one after another, for  *)
(* the same listed objects.  The calling thread checks the local files,    *)
(* submits one download_file task per queued object and collects the       *)
(* futures as they complete, while up to max_workers tasks run.            *)
(***************************************************************************)
\* The number of listed objects, of worker threads and of calls followed.
MaxObjects == 3

MaxWorkers == 2

MaxCalls == 2

\* obj["Size"] of the object with key k; a local file of another size is a
\* truncated one.
ListedSize(k) == 100 * k

TruncatedSize == 1

\* The first n objects of the listing.
Listing(n) == [k \in 1..n |-> [Key |-> k, Size |-> ListedSize(k)]]

\* The positions of the queue whose task a worker thread is running.
Running == {i \in DOMAIN future : future[i] = "running"}

DownloadInit ==
    /\ \E n \in 0..MaxObjects :
          /\ dl_objects = Listing(n)
          /\ dl_local \in [1..MaxObjects ->
                              {None, Some(TruncatedSize)}
                              \cup {Some(ListedSize(k)) : k \in 1..MaxObjects}]
          /\ \A k \in 1..MaxObjects :
                /\ dl_local[k] \in {None, Some(TruncatedSize), Some(ListedSize(k))}
                /\ k > n => dl_local[k] = None
          /\ local_at_call = dl_local
    /\ max_workers \in 1..MaxWorkers
    /\ dl_pc = "idle"
    /\ dl_next = 1
    /\ download_queue = <<>>
    /\ future = <<>>
    /\ downloaded = 0
    /\ skipped = 0
    /\ failed = 0
    /\ dl_calls = 0
    /\ counted_as = [i \in DOMAIN dl_objects |-> <<>>]
    /\ AuthIdle
    /\ ConvIdle
    /\ NormIdle
    /\ DbIdle
    /\ PipeIdle

\* download_files_parallel, lines 69-77: the counters start at zero.
CallDownload ==
    /\ dl_pc \in {"idle", "returned"}
    /\ dl_calls < MaxCalls
    /\ dl_calls' = dl_calls + 1
    /\ dl_pc' = "check"
    /\ dl_next' = 1
    /\ download_queue' = <<>>
    /\ future' = <<>>
    /\ downloaded' = 0
    /\ skipped' = 0
    /\ failed' = 0
    /\ local_at_call' = dl_local
    /\ counted_as' = [i \in DOMAIN dl_objects |-> <<>>]
    /\ UNCHANGED <<dl_objects, dl_local, max_workers,
                   authVars, convVars, normVars, dbVars, pipeVars>>

\* Lines 78-86: an object whose local file has the listed size is counted
\* as skipped, any other is queued.
CheckObject ==
    /\ dl_pc = "check"
    /\ dl_next <= Len(dl_objects)
    /\ LET obj == dl_objects[dl_next]
       IN  IF dl_local[obj.Key] = Some(obj.Size)
           THEN /\ skipped' = skipped + 1
                /\ counted_as' = [counted_as EXCEPT ![dl_next] =
                                     Append(@, "skipped")]
                /\ UNCHANGED download_queue
           ELSE /\ download_queue' = Append(download_queue, dl_next)
                /\ UNCHANGED <<skipped, counted_as>>
    /\ dl_next' = dl_next + 1
    /\ UNCHANGED <<dl_objects, dl_local, max_workers, dl_pc, future,
                   downloaded, failed, dl_calls, local_at_call,
                   authVars, convVars, normVars, dbVars, pipeVars>>

\* Lines 91-93: nothing is queued; return 0, skipped, 0.
ReturnAllSkipped ==
    /\ dl_pc = "check"
    /\ dl_next > Len(dl_objects)
    /\ download_queue = <<>>
    /\ dl_pc' = "returned"
    /\ UNCHANGED <<dl_objects, dl_local, max_workers, dl_next,
                   download_queue, future, downloaded, skipped, failed,
                   dl_calls, local_at_call, counted_as,
                   authVars, convVars, normVars, dbVars, pipeVars>>

\* Lines 95-106: the progress bar and the executor are set up.
StartExecutor ==
    /\ dl_pc = "check"
    /\ dl_next > Len(dl_objects)
    /\ download_queue # <<>>
    /\ dl_pc' = "submit"
    /\ dl_next' = 1
    /\ future' = [i \in 1..Len(download_queue) |-> "unsubmitted"]
    /\ UNCHANGED <<dl_objects, dl_local, max_workers, download_queue,
                   downloaded, skipped, failed, dl_calls, local_at_call,
                   counted_as, authVars, convVars, normVars, dbVars, pipeVars>>

\* Lines 108-118: executor.submit for the next queued object; the collecting
\* loop starts when every task is submitted.
Submit ==
    /\ dl_pc = "submit"
    /\ future' = [future EXCEPT ![dl_next] = "pending"]
    /\ dl_next' = dl_next + 1
    /\ dl_pc' = IF dl_next = Len(download_queue) THEN "collect" ELSE "submit"
    /\ UNCHANGED <<dl_objects, dl_local, max_workers, download_queue,
                   downloaded, skipped, failed, dl_calls, local_at_call,
                   counted_as, authVars, convVars, normVars, dbVars, pipeVars>>

\* ThreadPoolExecutor: a free worker thread takes a submitted task.
WorkerStarts ==
    /\ Cardinality(Running) < max_workers
    /\ \E i \in DOMAIN future :
          /\ future[i] = "pending"
          /\ future' = [future EXCEPT ![i] = "running"]
    /\ UNCHANGED <<dl_objects, dl_local, max_workers, dl_pc, dl_next,
                   download_queue, downloaded, skipped, failed, dl_calls,
                   local_at_call, counted_as,
                   authVars, convVars, normVars, dbVars, pipeVars>>

\* download_file, lines 43-52: the object is downloaded to its local path;
\* the task returns (True, size).
DownloadFileSucceeds ==
    /\ \E i \in Running :
          LET obj == dl_objects[download_queue[i]]
          IN  /\ dl_local' = [dl_local EXCEPT ![obj.Key] = Some(obj.Size)]
              /\ future' = [future EXCEPT ![i] = "succeeded"]
    /\ UNCHANGED <<dl_objects, max_workers, dl_pc, dl_next, download_queue,
                   downloaded, skipped, failed, dl_calls, local_at_call,
                   counted_as, authVars, convVars, normVars, dbVars, pipeVars>>

\* download_file, lines 53-54: mkdir or the transfer raises; the task
\* returns (False, 0).  The transfer writes a temporary file that it renames
\* at its end, so the local path is as it was.
DownloadFileFails ==
    /\ \E i \in Running : future' = [future EXCEPT ![i] = "raised"]
    /\ UNCHANGED <<dl_objects, dl_local, max_workers, dl_pc, dl_next,
                   download_queue, downloaded, skipped, failed, dl_calls,
                   local_at_call, counted_as,
                   authVars, convVars, normVars, dbVars, pipeVars>>

\* Mutant: a task that failed is not counted.
Collect_success_only ==
    /\ dl_pc = "collect"
    /\ \E i \in DOMAIN future :
          /\ future[i] \in {"succeeded", "raised"}
          /\ future' = [future EXCEPT ![i] = "collected"]
          /\ IF future[i] = "succeeded"
             THEN /\ downloaded' = downloaded + 1
                  /\ counted_as' = [counted_as EXCEPT ![download_queue[i]] =
                                       Append(@, "downloaded")]
             ELSE UNCHANGED <<downloaded, counted_as>>
    /\ UNCHANGED <<dl_objects, dl_local, max_workers, dl_pc, dl_next,
                   download_queue, skipped, failed, dl_calls, local_at_call,
                   authVars, convVars, normVars, dbVars, pipeVars>>

\* Lines 120-129: as_completed yields a finished future, once; the calling
\* thread counts its object as downloaded or as failed.
Collect ==
    /\ dl_pc = "collect"
    /\ \E i \in DOMAIN future :
          /\ future[i] \in {"succeeded", "raised"}
          /\ future' = [future EXCEPT ![i] = "collected"]
          /\ IF future[i] = "succeeded"
             THEN /\ downloaded' = downloaded + 1
                  /\ counted_as' = [counted_as EXCEPT ![download_queue[i]] =
                                       Append(@, "downloaded")]
                  /\ UNCHANGED failed
             ELSE /\ failed' = failed + 1
                  /\ counted_as' = [counted_as EXCEPT ![download_queue[i]] =
                                       Append(@, "failed")]
                  /\ UNCHANGED downloaded
    /\ UNCHANGED <<dl_objects, dl_local, max_workers, dl_pc, dl_next,
                   download_queue, skipped, dl_calls, local_at_call,
                   authVars, convVars, normVars, dbVars, pipeVars>>

\* Line 131: every future was yielded; return downloaded, skipped, failed.
ReturnCounts ==
    /\ dl_pc = "collect"
    /\ \A i \in DOMAIN future : future[i] = "collected"
    /\ dl_pc' = "returned"
    /\ UNCHANGED <<dl_objects, dl_local, max_workers, dl_next,
                   download_queue, future, downloaded, skipped, failed,
                   dl_calls, local_at_call, counted_as,
                   authVars, convVars, normVars, dbVars, pipeVars>>

DownloadNext ==
    \/ CallDownload
    \/ CheckObject
    \/ ReturnAllSkipped
    \/ StartExecutor
    \/ Submit
    \/ WorkerStarts
    \/ DownloadFileSucceeds
    \/ DownloadFileFails
    \/ Collect
    \/ ReturnCounts

SpecDownload == DownloadInit /\ [][DownloadNext]_vars

(***************************************************************************)
(* Claims about determine_dataset_for_date (SpecAuth).                     *)
(***************************************************************************)
\* The sources whose inclusive range contains the date.
AuthCovering == {n \in DatasetSet :
                    /\ auth_config[n].date_range[1] <= auth_date
                    /\ auth_date <= auth_config[n].date_range[2]}

\* The catalog of the worked example: [01-01,01-10] priority 3,
\* [01-08,01-20] priority 2, [01-08,01-08] priority 1.
ExampleCatalog ==
    [node_trades |-> [date_range |-> <<20250101, 20250110>>, priority |-> 3],
     node_fills |-> [date_range |-> <<20250108, 20250120>>, priority |-> 2],
     node_fills_by_block |-> [date_range |-> <<20250108, 20250108>>, priority |-> 1]]

\* C1: for a catalog without priority ties the resolver returns the covering
\* source of lowest priority number (a covered date is never answered None,
\* range boundaries and nested single-day ranges included); in the worked
\* example 01-08 resolves to the priority-1 source and 01-09 to the priority-2
\* source.
C1_LowestPriorityCovering ==
    auth_pc = "return" =>
        /\ (AuthCovering = {}) <=> (auth_result = None)
        /\ auth_result # None =>
            /\ auth_result[1] \in AuthCovering
            /\ \A n \in AuthCovering :
                  auth_config[auth_result[1]].priority <= auth_config[n].priority
        /\ auth_config = ExampleCatalog =>
            /\ auth_date = 20250108 => auth_result = Some("node_fills_by_block")
            /\ auth_date = 20250109 => auth_result = Some("node_fills")

\* C1 witness: the single-day range nested in two others wins on its day.
C1_Witness ==
    /\ auth_config = ExampleCatalog
    /\ auth_date = 20250108
    /\ auth_pc = "return"
    /\ auth_result = Some("node_fills_by_block")
    /\ Cardinality(AuthCovering) = 3

(***************************************************************************)
(* Claims about the converters (SpecConv).                                 *)
(***************************************************************************)
\* The JSON values of the file's lines, in order.
ConvRecords ==
    LET json == SelectSeq(conv_file, LAMBDA l : l.text = "json")
    IN  [i \in 1..Len(json) |-> json[i].value]

ConvReturned == conv_pc = "return" /\ ~conv_result.raised

\* C6 as stated: N node_trades records convert to exactly 2N fills.
C6_TwoFillsPerTrade ==
    (ConvReturned /\ conv_dataset = "node_trades") =>
        Len(conv_result.fills) = 2 * Len(ConvRecords)

\* The events of a block record.
EventsOf(block) == GetOr(block, "events", <<>>)

\* The number of events in the first k blocks of the file.
RECURSIVE EventsBefore(_)
EventsBefore(k) ==
    IF k = 0 THEN 0 ELSE EventsBefore(k - 1) + Len(EventsOf(ConvRecords[k]))

SameTrade(fill, user_address, data) ==
    /\ fill.user_address = user_address
    /\ fill.coin = data.coin /\ fill.px = data.px /\ fill.sz = data.sz
    /\ fill.side = data.side /\ fill.time = data.time /\ fill.hash = data.hash

\* C7: a node_fills record yields exactly one fill, its own; a block yields
\* one fill per event, in event order, each with the block's number, block
\* time and local time; a block without events yields none.
C7_OneFillPerEvent ==
    /\ (ConvReturned /\ conv_dataset = "node_fills") =>
        /\ Len(conv_result.fills) = Len(ConvRecords)
        /\ \A i \in 1..Len(ConvRecords) :
              /\ SameTrade(conv_result.fills[i], ConvRecords[i][1], ConvRecords[i][2])
              /\ conv_result.fills[i].dataset_source = "node_fills"
    /\ (ConvReturned /\ conv_dataset = "node_fills_by_block") =>
        /\ Len(conv_result.fills) = EventsBefore(Len(ConvRecords))
        /\ \A k \in 1..Len(ConvRecords) :
              \A j \in 1..Len(EventsOf(ConvRecords[k])) :
                 LET fill == conv_result.fills[EventsBefore(k - 1) + j]
                     event == EventsOf(ConvRecords[k])[j]
                 IN  /\ SameTrade(fill, event[1], event[2])
                     /\ fill.block_number = Get(ConvRecords[k], "block_number")
                     /\ fill.block_time = Get(ConvRecords[k], "block_time")
                     /\ fill.local_time = Get(ConvRecords[k], "local_time")
                     /\ fill.dataset_source = "node_fills_by_block"

\* C7 witness: a block of two events followed by a block of none converts to
\* the two fills of the first block.
C7_Witness ==
    /\ ConvReturned
    /\ conv_dataset = "node_fills_by_block"
    /\ Len(ConvRecords) = 2
    /\ Len(EventsOf(ConvRecords[1])) = 2
    /\ ConvRecords[1].events[1] # ConvRecords[1].events[2]
    /\ Len(EventsOf(ConvRecords[2])) = 0
    /\ Len(conv_result.fills) = 2
    /\ conv_result.fills[1].block_number = Some(42)

(***************************************************************************)
(* Claims about the orchestrator (Spec).                                   *)
(***************************************************************************)
\* The sources of DATASET_CONFIG whose range contains the date.
Covering(d) ==
    {n \in DatasetSet :
        /\ DATASET_CONFIG[n].date_range[1] <= d
        /\ d <= DATASET_CONFIG[n].date_range[2]}

\* C2: every fill stored in the partition of a date carries the source that
\* is authoritative for the date, the covering source of lowest priority
\* number, so no partition mixes sources or holds a non-authoritative one.
C2_PartitionFromAuthoritativeSource ==
    \A d \in RunDays :
        \A i \in 1..Len(output[d].rows) :
            LET source == output[d].rows[i].dataset_source
            IN  /\ source \in Covering(d)
                /\ \A n \in Covering(d) :
                      DATASET_CONFIG[source].priority <= DATASET_CONFIG[n].priority

\* C2 witness: after two runs the partition of 2025-05-25, a date both
\* node_trades and node_fills cover and have raw files for, holds the
\* node_fills fills.
C2_Witness ==
    /\ pc = "done" /\ runs = 2
    /\ Cardinality(Covering(20250525)) = 2
    /\ get_files_for_date(raw, "node_trades", 20250525) # <<>>
    /\ output[20250525].file = "complete"
    /\ Len(output[20250525].rows) = 2
    /\ \A i \in 1..2 : output[20250525].rows[i].dataset_source = "node_fills"

\* A partition a reader can see: absent, or a directory with its complete
\* data file.
AbsentOrComplete(partition) == partition.dir => partition.file = "complete"

\* C3 as stated, for the states in which no run is writing: before a run,
\* after a run, and after process_date was interrupted or failed, every
\* partition is absent or complete.
C3_PartitionAbsentOrComplete ==
    pc \in {"idle", "done", "crashed"} =>
        \A d \in RunDays : AbsentOrComplete(output[d])

\* The crash of the claim: inside process_date, after the fills were
\* converted and before the partition was complete.
CrashedBeforePublish ==
    /\ crash # None
    /\ crash[1].phase \in {"mkdir", "open", "writing", "write"}

\* C4 as stated: a crash between conversion and publication of a date that
\* had no partition leaves no partition directory for it, and the run after
\* the crash ends with the date's complete partition.
C4_CrashLeavesNothingAndNextRunCompletes ==
    /\ (pc = "crashed" /\ CrashedBeforePublish
            /\ ~output_at_start[crash[1].date].dir)
        => ~output[crash[1].date].dir
    /\ (pc = "done" /\ prev_outcome = "crashed" /\ CrashedBeforePublish)
        => output[crash[1].date].file = "complete"

\* The run asked for no rebuild: it skips what exists, or nothing existed.
NoForcedRebuild == skip_existing \/ existing_dates = {}

\* C5: a run that follows a completed run on the same raw input and forces
\* no rebuild opens no data file, reports no date as written and leaves
\* every partition, with its rows, as the first run left it.
C5_SecondRunIsNoOp ==
    (pc = "done" /\ prev_outcome = "done" /\ NoForcedRebuild) =>
        /\ written = <<>>
        /\ output = output_at_start
        /\ \A i \in 1..Len(results) : results[i].status # "success"

\* C5 witness: the second run skipped two partitions the first run wrote.
C5_Witness ==
    /\ pc = "done" /\ prev_outcome = "done" /\ skip_existing
    /\ Cardinality({d \in RunDays : output[d].file = "complete"}) >= 2
    /\ \E i \in 1..Len(results) : results[i].status = "skipped"
    /\ written = <<>>

(***************************************************************************)
(* Claims about the database and the query cache (SpecDB).                 *)
(***************************************************************************)
\* C8 as stated, in what the caller sees, for the rebuilds that complete:
\* the first execution, after the rebuild, of a query text cached before the
\* rebuild returns what the rebuilt tables hold.
C8_FirstQueryAfterRebuildIsFresh ==
    (reply # None /\ reply[1].cached_before_rebuild /\ last_build = "complete") =>
        reply[1].result = Execute(reply[1].query, fills_table, daily_user_volume)

AllTablesExist ==
    /\ fills_table # None
    /\ daily_user_volume # None
    /\ user_first_trade # None
    /\ daily_metrics # None

\* C9 as stated, for the states in which no build is running: once the four
\* tables exist, the three aggregate tables are the reductions of the rows
\* the fills table holds, so all four come from one state of the store.
C9_RebuildAllOrNothing ==
    (db_pc \in {"closed", "ready"} /\ AllTablesExist) =>
        /\ daily_user_volume[1] = DailyUserVolume(fills_table[1])
        /\ user_first_trade[1] = UserFirstTrade(fills_table[1])
        /\ daily_metrics[1] = DailyMetrics(fills_table[1])

\* The sum of daily_volume over a set of daily_user_volume rows.
RECURSIVE SumDailyVolume(_)
SumDailyVolume(volume_rows) ==
    IF volume_rows = {} THEN 0
    ELSE LET r == CHOOSE x \in volume_rows : TRUE
         IN  r.daily_volume + SumDailyVolume(volume_rows \ {r})

\* C10: after a completed rebuild, for every date of daily_metrics the
\* daily_volume of the daily_user_volume rows of the date add up to the
\* total_volume of the date.
C10_DailyVolumesAddUpToTotal ==
    last_build = "complete" =>
        \A m \in daily_metrics[1] :
            SumDailyVolume({r \in daily_user_volume[1] : r.date = m.date})
                = m.total_volume

\* C10 witness: after a completed rebuild a date has two daily_user_volume
\* rows that add up to its total, and the fills table holds bid rows too.
C10_Witness ==
    /\ last_build = "complete"
    /\ db_pc = "ready"
    /\ \E m \in daily_metrics[1] :
          /\ Cardinality({r \in daily_user_volume[1] : r.date = m.date}) >= 2
          /\ m.total_volume > 0
    /\ \E m \in daily_metrics[1] :
          /\ m.total_volume > 0
          /\ \E i \in 1..Len(fills_table[1]) :
                /\ fills_table[1][i].date = m.date
                /\ fills_table[1][i].side = "B"

\* C11: after a completed rebuild, user_first_trade has one row for each
\* user of the fills table, whatever the side of the fills, and no other row;
\* the first_trade_date of the row is the date of one of the user's fills and
\* no fill of the user has an earlier date.
C11_FirstTradeIsMinimumDate ==
    last_build = "complete" =>
        LET rows == fills_table[1]
            Of(u) == {i \in 1..Len(rows) : rows[i].user_address = u}
        IN  /\ {r.user_address : r \in user_first_trade[1]}
                  = {rows[i].user_address : i \in 1..Len(rows)}
            /\ \A r1, r2 \in user_first_trade[1] :
                  r1.user_address = r2.user_address => r1 = r2
            /\ \A r \in user_first_trade[1] :
                  /\ \E i \in Of(r.user_address) : rows[i].date = r.first_trade_date
                  /\ \A i \in Of(r.user_address) : r.first_trade_date <= rows[i].date

\* C11 witness: after a completed rebuild a user has fills on two dates, a
\* bid on the later one, and the row of the user carries the earlier date.
C11_Witness ==
    /\ last_build = "complete"
    /\ db_pc = "ready"
    /\ \E r \in user_first_trade[1] :
          \E i, j \in 1..Len(fills_table[1]) :
             /\ fills_table[1][i].user_address = r.user_address
             /\ fills_table[1][j].user_address = r.user_address
             /\ fills_table[1][i].date < fills_table[1][j].date
             /\ fills_table[1][j].side = "B"
             /\ r.first_trade_date = fills_table[1][i].date

(***************************************************************************)
(* Claims about run_pipeline.py (SpecPipe).                                *)
(***************************************************************************)
\* C12 as stated, for a database whose four tables exist: when an invocation
\* whose normalize step changed the partitions and whose db step was not
\* skipped by --skip-db has completed, the aggregate tables are what a
\* rebuild over the partitions gives.
C12_PipelineLeavesFreshAggregates ==
    (/\ pipe_pc = "complete"
     /\ norm_wrote
     /\ ~args.skip_db
     /\ db_pc \in {"closed", "ready"}
     /\ AllTablesExist
     /\ ~read_parquet(output).raised) =>
        LET fresh == read_parquet(output).rows
        IN  /\ daily_user_volume[1] = DailyUserVolume(fresh)
            /\ user_first_trade[1] = UserFirstTrade(fresh)
            /\ daily_metrics[1] = DailyMetrics(fresh)

(***************************************************************************)
(* Claims about the outcome of each date in a run of main (Spec).          *)
(***************************************************************************)
\* A date whose authoritative files hold a line that does not parse or a
\* record without a required field.
MalformedDate(d) ==
    LET dataset_name == determine_dataset_for_date(DATASET_CONFIG, d)
    IN  /\ dataset_name # None
        /\ get_files_for_date(raw, dataset_name[1], d) # <<>>
        /\ collect_fills(dataset_name[1],
                         get_files_for_date(raw, dataset_name[1], d)).raised

\* C13 as stated: a malformed record does not end the run at its date, and
\* the date, once processed, is reported as a success.
C13_MalformedRecordIsDropped ==
    \A d \in RunDays :
        MalformedDate(d) =>
            /\ ~(pc = "crashed" /\ crash = Some([date |-> d, phase |-> "convert"]))
            /\ \A i \in 1..Len(results) :
                  (results[i].date = d /\ results[i].status # "skipped")
                      => results[i].status = "success"

\* The run was ended by an exception out of process_date: an unreadable or
\* malformed raw file, or a failed write of the partition.
EndedByFailure ==
    /\ pc = "crashed"
    /\ crash # None
    /\ crash[1].phase \in {"convert", "write"}

\* C14 as stated: when a date fails, every later candidate date of the run
\* is still processed, and the partitions written before stay as they are.
C14_FailureIsolatedToDate ==
    EndedByFailure =>
        \A j \in 1..Len(all_dates) :
            all_dates[j] > crash[1].date =>
                \E i \in 1..Len(results) : results[i].date = all_dates[j]

\* C15: for a date no range of DATASET_CONFIG covers, the resolution gives
\* None, the date is reported as no_data with no file and no record, it has
\* no partition directory, and the run does not end at it.
C15_UncoveredDateIsNoData ==
    \A d \in RunDays :
        Covering(d) = {} =>
            /\ determine_dataset_for_date(DATASET_CONFIG, d) = None
            /\ output[d] = NoPartition
            /\ \A i \in 1..Len(results) :
                  results[i].date = d =>
                      results[i] = Result(d, None, 0, 0, "no_data")
            /\ ~(pc = "crashed" /\ crash # None /\ crash[1].date = d)
            /\ (pc = "done" /\ d \in Present(raw)) =>
                  \E i \in 1..Len(results) : results[i].date = d

\* C15 witness: an uncovered date was reported as no_data and the run went
\* on to write the partition of the next date.
C15_Witness ==
    \E i \in 1..(Len(results) - 1) :
        /\ Covering(results[i].date) = {}
        /\ results[i].status = "no_data"
        /\ output[results[i].date] = NoPartition
        /\ results[i + 1].status = "success"

\* The dates for which the run has opened data.parquet for writing.
WrittenDates == {written[k] : k \in 1..Len(written)}

NewFills(d) ==
    LET dataset_name == determine_dataset_for_date(DATASET_CONFIG, d)
    IN  collect_fills(dataset_name[1],
                      get_files_for_date(raw, dataset_name[1], d)).fills

\* C18: when a run changes a partition that was complete, the partition
\* afterwards holds the fills of the new processing of its date and no other
\* row.
C18_ReprocessingReplaces ==
    [][\A d \in RunDays :
          (output[d].file = "complete" /\ output'[d] # output[d]) =>
              /\ output'[d].file = "complete"
              /\ output'[d].rows = NewFills(d)]_vars

\* C18 witness: the partition of a date holds the fills of the files that
\* were downloaded after its first partition was written, fewer than the
\* first partition held.
C18_Witness ==
    \E d \in RunDays :
        /\ \E ds \in DatasetSet : raw[ds][d] # RawTree(Present(raw))[ds][d]
        /\ output[d].file = "complete"
        /\ output[d].rows = NewFills(d)
        /\ Len(output[d].rows) <
              Len(process_date(RawTree(Present(raw)), output, d).output[d].rows)

(***************************************************************************)
(* Claims about the pipeline's step order (SpecPipe) and about what starts *)
(* a build (SpecQuery).                                                    *)
(***************************************************************************)
\* C19: in an invocation of the pipeline the command of the db step is
\* started only when the normalize command has ended with success, or was
\* skipped by flag; after a failed normalize command main is at its end and
\* the db command was not started.
C19_BuildOnlyAfterNormalize ==
    /\ proc["db"] # "none" =>
          proc["normalize"] = IF args.skip_normalize THEN "none" ELSE "ok"
    /\ proc["normalize"] = "running" => proc["db"] = "none"
    /\ proc["normalize"] = "failed" =>
          /\ proc["db"] = "none"
          /\ pipe_pc \in {"normalize", "failed"}

\* C19 witness: the db command runs after a normalize command that wrote
\* partitions and ended with success.
C19_Witness ==
    /\ proc["db"] = "running"
    /\ proc["normalize"] = "ok"
    /\ norm_wrote

BuildPcs == {"fills", "daily_user_volume", "user_first_trade", "daily_metrics"}

TablesOf(f, v, u, m) == <<f, v, u, m>>

\* C20: a build starts only out of __init__, when there is no fills table or
\* a rebuild is asked for, or out of rebuild_database; the tables change only
\* in the statements of a build; a call of a query method starts no build
\* and leaves the four tables as they are.
C20_BuildOnlyWhenTriggered ==
    [][/\ (db_pc' = "fills" /\ db_pc # "fills") =>
             \/ db_pc = "closed" /\ db_call' = "__init__"
             \/ db_pc = "ready" /\ db_call' = "rebuild_database"
       /\ (db_pc = "closed" /\ db_pc' = "ready") => fills_table # None
       /\ (TablesOf(fills_table, daily_user_volume, user_first_trade, daily_metrics)'
              # TablesOf(fills_table, daily_user_volume, user_first_trade, daily_metrics))
             => db_pc \in BuildPcs
       /\ (reply' # None /\ reply'[1].query \in QueryMethods /\ db_pc = "ready") =>
             /\ db_pc' = "ready"
             /\ last_build' = last_build
             /\ TablesOf(fills_table, daily_user_volume, user_first_trade, daily_metrics)'
                  = TablesOf(fills_table, daily_user_volume, user_first_trade, daily_metrics)
      ]_vars

\* C20 witness: get_dau has answered with two dates from the tables of a
\* completed build, which are still the reductions of the fills table.
C20_Witness ==
    /\ reply # None
    /\ reply[1].query = "get_dau"
    /\ ~reply[1].result.raised
    /\ Len(reply[1].result.value) >= 2
    /\ \E i \in 1..Len(reply[1].result.value) : reply[1].result.value[i].dau = 2
    /\ db_pc = "ready"
    /\ last_build = "complete"
    /\ daily_metrics = Some(DailyMetrics(fills_table[1]))

(***************************************************************************)
(* Claims about the query cache (SpecCache).                               *)
(***************************************************************************)
CachedTexts(entries) == {entries[i].query : i \in 1..Len(entries)}

\* The entries of the cache other than the one of a query text, in order.
OtherEntries(entries, query) == SelectSeq(entries, LAMBDA e : e.query # query)

\* C21: the cache never holds more than 128 entries and never two of one
\* query text.  A call with a text that is cached is answered with the cached
\* result, without executing it, and makes that entry the most recent one; a
\* call with a text that is not cached stores it as the most recent entry
\* and, when the cache was full, drops exactly the least recently used entry.
\* The order of the other entries never changes.
C21_CacheBoundedLru ==
    [][(db_pc = "ready" /\ db_pc' = "ready" /\ reply' # None /\ reply' # reply
        /\ ~reply'[1].result.raised)
       => LET query == reply'[1].query
              pos == CachePos(cache, query)
              others == OtherEntries(cache, query)
          IN  /\ Len(cache') <= CacheMaxSize
              /\ Cardinality(CachedTexts(cache')) = Len(cache')
              /\ cache'[1].query = query
              /\ reply'[1].hit = (pos # 0)
              /\ pos # 0 => /\ reply'[1].result = cache[pos].result
                            /\ cache'[1] = cache[pos]
                            /\ OtherEntries(cache', query) = others
              /\ pos = 0 =>
                    /\ cache'[1].result = reply'[1].result
                    /\ OtherEntries(cache', query) =
                          IF Len(cache) < CacheMaxSize THEN others
                          ELSE SubSeq(others, 1, CacheMaxSize - 1)]_vars

\* A full cache that still holds the first text, asked for again before the
\* cache filled up, and has dropped the second: the text just stored is not
\* the one that was dropped.
C21_Witness ==
    /\ Len(cache) = CacheMaxSize
    /\ PriceQueries[1] \in CachedTexts(cache)
    /\ PriceQueries[2] \notin CachedTexts(cache)
    /\ reply # None
    /\ reply[1].query = PriceQueries[CacheMaxSize + 1]
    /\ ~reply[1].hit

(***************************************************************************)
(* Claims about the summary main prints at its end (Spec).                 *)
(***************************************************************************)
\* The number of dates the summary lists: "Dates:" of every dataset.
SummaryDates ==
    SumBy({[dataset |-> ds, dates |-> stats_by_dataset[ds].dates] :
              ds \in DOMAIN stats_by_dataset}, "dates")

\* records_written summed over the dates the run reported as a success.
RecordsOfSuccesses ==
    SumBy({[date |-> results[i].date, records |-> results[i].records_written] :
              i \in {j \in 1..Len(results) : results[j].status = "success"}},
          "records")

\* C22: at the end of a run the summary accounts for every candidate date,
\* and the total it reports is the sum of records_written over the dates
\* processed in the run.
C22_SummaryAccountsForEveryDate ==
    pc = "done" =>
        /\ SummaryDates = Len(all_dates)
        /\ total_records = RecordsOfSuccesses

\* The part of C22 that holds: the totals of the summary come from the dates
\* processed in the run and from nothing else.
C22_TotalsFromProcessedDates ==
    /\ total_records = RecordsOfSuccesses
    /\ SummaryDates =
          Cardinality({i \in 1..Len(results) : results[i].status = "success"})

(***************************************************************************)
(* Claims about the two fills of a node_trades record (SpecConv).          *)
(***************************************************************************)
\* Every record of the file names its two parties.
TwoPartyRecords ==
    \A i \in 1..Len(ConvRecords) :
        Len(GetOr(ConvRecords[i], "side_info", <<>>)) = 2

\* The fill carries the party's own values and the trade's shared ones.
FillOfParty(fill, record, party) ==
    /\ fill.user_address = party.user
    /\ fill.oid = Get(party, "oid")
    /\ fill.cloid = Get(party, "cloid")
    /\ fill.start_position = Get(party, "start_pos")
    /\ fill.hash = record.hash /\ fill.px = record.px /\ fill.sz = record.sz
    /\ fill.time = iso_to_unix_ms(record.time)

\* C23: the two fills of a node_trades record are one per side, one marked
\* ask and one marked bid, each with its own party's user address, oid,
\* cloid and start position and the trade's hash, price, size and timestamp.
C23_OneFillPerSide ==
    (ConvReturned /\ conv_dataset = "node_trades" /\ TwoPartyRecords) =>
        \A i \in 1..Len(ConvRecords) :
            LET first == conv_result.fills[2 * i - 1]
                second == conv_result.fills[2 * i]
                record == ConvRecords[i]
            IN  /\ FillOfParty(first, record, record.side_info[1])
                /\ FillOfParty(second, record, record.side_info[2])
                /\ {first.side, second.side} = {"A", "B"}

\* The part of C23 that holds: each fill carries its own party's values and
\* the shared ones; both carry the side of the record.
C23_PartyValuesAndRecordSide ==
    (ConvReturned /\ conv_dataset = "node_trades" /\ TwoPartyRecords) =>
        \A i \in 1..Len(ConvRecords) :
            /\ FillOfParty(conv_result.fills[2 * i - 1], ConvRecords[i],
                           ConvRecords[i].side_info[1])
            /\ FillOfParty(conv_result.fills[2 * i], ConvRecords[i],
                           ConvRecords[i].side_info[2])
            /\ conv_result.fills[2 * i - 1].side = ConvRecords[i].side
            /\ conv_result.fills[2 * i].side = ConvRecords[i].side

(***************************************************************************)
(* Claims about the volume of a trade in the aggregates (SpecQuery).       *)
(***************************************************************************)
\* The records of the raw files, in order.
RECURSIVE RecordsOfFiles(_)
RecordsOfFiles(files) ==
    IF files = <<>> THEN <<>>
    ELSE LET json == SelectSeq(Head(files), LAMBDA l : l.text = "json")
         IN  [i \in 1..Len(json) |-> json[i].value]
             \o RecordsOfFiles(Tail(files))

\* The [user_address, data] events of fill records or of blocks, in order.
RECURSIVE EventsOfBlocks(_)
EventsOfBlocks(blocks) ==
    IF blocks = <<>> THEN <<>>
    ELSE EventsOf(Head(blocks)) \o EventsOfBlocks(Tail(blocks))

\* px * sz summed over trade records, or over the data of events.
RECURSIVE NotionalOf(_)
NotionalOf(trades) ==
    IF trades = <<>> THEN 0
    ELSE Head(trades).px * Head(trades).sz + NotionalOf(Tail(trades))

\* The notional of the trades in the raw files of the authoritative source
\* of a date, each trade once: a node_trades record is one trade, and in the
\* two fill formats a trade is the event of its ask side.
TradeNotional(d) ==
    LET dataset_name == determine_dataset_for_date(DATASET_CONFIG, d)[1]
        records == RecordsOfFiles(get_files_for_date(raw, dataset_name, d))
        events == IF dataset_name = "node_fills" THEN records
                  ELSE EventsOfBlocks(records)
        asks == SelectSeq(events, LAMBDA e : e[2].side = "A")
    IN  IF dataset_name = "node_trades" THEN NotionalOf(records)
        ELSE NotionalOf([i \in 1..Len(asks) |-> asks[i][2]])

\* C24: after a completed build, for every date of the store, whatever its
\* source format, the total volume of the date in daily_metrics and the
\* daily volumes of the date in daily_user_volume each add up to the
\* notional of the date's trades, every trade counted once.
C24_TradeCountedOnce ==
    (db_pc = "ready" /\ last_build = "complete") =>
        \A m \in daily_metrics[1] :
            /\ m.total_volume = TradeNotional(m.date)
            /\ SumDailyVolume({r \in daily_user_volume[1] : r.date = m.date})
                  = TradeNotional(m.date)

\* The part of C24 that holds: the dates whose source is one of the two fill
\* formats count every trade once.
C24_FillFormatsCountedOnce ==
    (db_pc = "ready" /\ last_build = "complete") =>
        \A m \in daily_metrics[1] :
            determine_dataset_for_date(DATASET_CONFIG, m.date)[1] # "node_trades"
                => m.total_volume = TradeNotional(m.date)

(***************************************************************************)
(* Claims about the raw files a date is converted from (Spec).             *)
(***************************************************************************)
\* The raw files on disk for a date in the directory of a source.
FilesOnDisk(dataset_name, d) ==
    IF raw[dataset_name][d] = None THEN <<>> ELSE raw[dataset_name][d][1]

\* The covering source of lowest priority number.
Authoritative(d) ==
    CHOOSE n \in Covering(d) :
        \A o \in Covering(d) :
            DATASET_CONFIG[n].priority <= DATASET_CONFIG[o].priority

\* C25: the fills collected for a date are those of the raw files of the
\* date's authoritative source; a processed date whose authoritative source
\* has no raw file is reported as no_files with nothing converted or
\* written, whatever files other covering sources hold, and never ends the
\* run.
C25_OnlyAuthoritativeFilesRead ==
    /\ pc \in {"mkdir", "open", "writing"} =>
          /\ FilesOnDisk(Authoritative(target_date), target_date) # <<>>
          /\ fills = collect_fills(Authoritative(target_date),
                        FilesOnDisk(Authoritative(target_date), target_date)).fills
          /\ \A i \in 1..Len(fills) :
                fills[i].dataset_source = Authoritative(target_date)
    /\ \A i \in 1..Len(results) :
          LET d == results[i].date
          IN  (/\ Covering(d) # {}
               /\ FilesOnDisk(Authoritative(d), d) = <<>>
               /\ results[i].status # "skipped") =>
                  /\ results[i] = Result(d, Some(Authoritative(d)), 0, 0, "no_files")
                  /\ output[d] = output_at_start[d]
                  /\ d \notin WrittenDates
    /\ (pc = "crashed" /\ crash # None) =>
          (Covering(crash[1].date) # {}
           /\ FilesOnDisk(Authoritative(crash[1].date), crash[1].date) # <<>>)

\* C25 witness: a run that reached its end reported 2025-07-27 as no_files
\* and wrote nothing for it, the directory of its authoritative source being
\* empty while node_fills, which covers the date too, has a file for it.
C25_Witness ==
    /\ pc = "done"
    /\ Authoritative(20250727) = "node_fills_by_block"
    /\ "node_fills" \in Covering(20250727)
    /\ FilesOnDisk("node_fills", 20250727) # <<>>
    /\ \E i \in 1..Len(results) :
          /\ results[i] = Result(20250727, Some("node_fills_by_block"), 0, 0,
                                 "no_files")
          /\ output[20250727] = NoPartition

(***************************************************************************)
(* Claims about the dates a run visits (Spec).                             *)
(***************************************************************************)
\* The dates for which some source has a raw directory on disk.
DatesOnDisk == {d \in RunDays : \E ds \in DatasetSet : raw[ds][d] # None}

\* C26: in a run, the candidate dates are the dates for which some source
\* has a raw directory, listed in strictly ascending order; the run has
\* dealt with the first idx - 1 of them, each once and in that order; and
\* the data files it has opened are of distinct dates, in ascending order,
\* so no partition is written twice in the run.
C26_EachDateOnceAscending ==
    runs > 0 =>
        /\ {all_dates[i] : i \in 1..Len(all_dates)} = DatesOnDisk
        /\ \A i \in 1..(Len(all_dates) - 1) : all_dates[i] < all_dates[i + 1]
        /\ Len(results) <= Len(all_dates)
        /\ \A i \in 1..Len(results) : results[i].date = all_dates[i]
        /\ pc \in {"loop", "done"} => idx = Len(results) + 1
        /\ pc \in {"mkdir", "open", "writing"} => idx = Len(results) + 1
        /\ \A i \in 1..(Len(written) - 1) : written[i] < written[i + 1]
        /\ \A i \in 1..Len(written) :
              \E k \in 1..idx : k <= Len(all_dates) /\ all_dates[k] = written[i]

\* C26 witness: a finished run wrote two partitions, the earlier date
\* first, and went on to a date that only sources other than node_trades
\* have a directory for.
C26_Witness ==
    /\ pc = "done"
    /\ Len(written) = 2
    /\ written[1] < written[2]
    /\ \E i \in 1..Len(results) :
          /\ results[i].date > written[2]
          /\ raw["node_trades"][results[i].date] = None

(***************************************************************************)
(* Claims about the database step of the pipeline (SpecPipe).              *)
(***************************************************************************)
\* C27: when the pipeline has run the command of its database step and the
\* command reported success, the database file exists and holds the four
\* tables, built from the canonical store.
C27_DbStepLeavesDatabase ==
    (/\ pipe_pc = "complete"
     /\ proc["db"] = "ok"
     /\ db_pc = "closed") =>
        /\ db_path_exists
        /\ AllTablesExist
        /\ ~read_parquet(output).raised
        /\ fills_table[1] = read_parquet(output).rows
        /\ daily_user_volume[1] = DailyUserVolume(fills_table[1])
        /\ user_first_trade[1] = UserFirstTrade(fills_table[1])
        /\ daily_metrics[1] = DailyMetrics(fills_table[1])

(***************************************************************************)
(* Claims about the tables after construction (SpecDB).                    *)
(***************************************************************************)
\* C28: whenever the construction of a HyperliquidAnalytics has returned
\* without error, the four tables exist, also when an earlier build was
\* interrupted after it created fills and the construction was not asked to
\* rebuild.  (A build that ended in an exception leaves the same tables
\* behind as an interrupted one; the case of the interruption is the one
\* stated.)
C28_ConstructedMeansAllTables ==
    (db_pc = "ready" /\ db_call = "__init__" /\ last_build # "failed")
        => AllTablesExist

(***************************************************************************)
(* Claims about get_dau and its baseline (SpecQuery).                      *)
(***************************************************************************)
\* The database holds the four tables of a completed build of the store.
BuiltFromStore ==
    /\ db_pc = "ready"
    /\ last_build = "complete"
    /\ ~read_parquet(output).raised
    /\ fills_table[1] = read_parquet(output).rows

\* C29: over a database built from the store, for every start date, end
\* date and coin filter, get_dau returns the rows the baseline get_dau
\* returns from the partition files; so a coin filter that names every coin
\* of the store gives the dau of no filter.
C29_GetDauMatchesBaseline ==
    BuiltFromStore =>
        \A start_date \in QueryDates, end_date \in QueryDates,
           coins \in QueryCoins :
            get_dau(daily_metrics, daily_user_volume, start_date, end_date,
                    coins)
                = baseline_get_dau(output, start_date, end_date, coins)

\* The part of C29 that holds: without a coin filter the two agree.
C29_NoCoinFilterMatchesBaseline ==
    BuiltFromStore =>
        \A start_date \in QueryDates, end_date \in QueryDates :
            get_dau(daily_metrics, daily_user_volume, start_date, end_date,
                    None)
                = baseline_get_dau(output, start_date, end_date, None)

(***************************************************************************)
(* Claims about download_files_parallel (SpecDownload).                    *)
(***************************************************************************)
\* The objects whose local file had the listed size when the call started.
AlreadyLocal ==
    {i \in DOMAIN dl_objects :
        local_at_call[dl_objects[i].Key] = Some(dl_objects[i].Size)}

CountedAs(counter) == {i \in DOMAIN dl_objects : counted_as[i] = <<counter>>}

\* C30: an object whose local file has the listed size is never queued or
\* submitted; and when download_files_parallel has returned, whatever the
\* order in which the workers ran and finished, every listed object was
\* added to exactly one of the three counters, the skipped ones being those
\* whose local file had the listed size, so downloaded + skipped + failed
\* is the number of objects.
C30_EveryObjectCountedOnce ==
    /\ \A q \in 1..Len(download_queue) : download_queue[q] \notin AlreadyLocal
    /\ (dl_pc = "returned" /\ dl_calls > 0) =>
          /\ downloaded + skipped + failed = Len(dl_objects)
          /\ \A i \in DOMAIN dl_objects : Len(counted_as[i]) = 1
          /\ Cardinality(CountedAs("downloaded")) = downloaded
          /\ Cardinality(CountedAs("skipped")) = skipped
          /\ Cardinality(CountedAs("failed")) = failed
          /\ CountedAs("skipped") = AlreadyLocal

\* C30 witness: a call over three objects returned with one downloaded, one
\* skipped and one failed.
C30_Witness ==
    /\ dl_pc = "returned"
    /\ max_workers = 2
    /\ downloaded = 1 /\ skipped = 1 /\ failed = 1
    /\ Len(dl_objects) = 3

====
